---------------------------- MODULE Spec2Model ----------------------------
(***************************************************************************)
(* Portfolio performance engine of vedantparikh/portfolia: the transaction *)
(* ledger, the FIFO replay that derives the stored state of a              *)
(* (portfolio, asset) pair, the daily valuation walk, the performance      *)
(* report, the stored daily history behind get_performance_history and the *)
(* return metrics (CAGR, XIRR, TWR) of the portfolio and of the benchmark. *)
(*                                                                         *)
(* Specifications: SpecReplay (one replay, statement by statement), Spec   *)
(* (the ledger operations), SpecHistory (the valuation walk), SpecPerf     *)
(* (the report and its errors), SpecCache (the stored history, one request *)
(* at a time), SpecRegeneration (two requests at once), SpecMetrics (the   *)
(* return metrics as numbers) and SpecHoldings (the replay, the valuation, *)
(* the walk and the snapshot generator on one ledger).                     *)
(*                                                                         *)
(* Money is an exact rational <<numerator, denominator>>; the 28-digit     *)
(* rounding of Python's Decimal lies below the resolution of the model.    *)
(* A timestamp is a number of ticks, TicksPerDay of them in a calendar     *)
(* day, so that two timestamps of one day can differ in their time of day. *)
(***************************************************************************)
EXTENDS Integers, Sequences, FiniteSets, TLC

\* ------------------------------------------------------------------ bounds
MaxTx == 3
MaxQty == 2
MaxLedger == 2
MaxBulk == 1
MaxDay == 2
MaxHistTx == 2
MaxPerfTx == 2

\* Sample values of the inputs.
TotalAmounts == {2, 3}
Prices == {1, 2}
TxTypes == {"BUY", "SELL"}

Quantities == 1..MaxQty
\* Two transaction_date values: equal dates and different dates both occur.
ReplayDates == {0, 1}

\* Resolution of a timestamp: the ticks of one calendar day.
TicksPerDay == 2
\* Every timestamp of the days 0..MaxDay.
Timestamps == 0..((MaxDay + 1) * TicksPerDay - 1)

\* --------------------------------------------------------------- rationals
RECURSIVE GCD(_, _)
GCD(a, b) == IF b = 0 THEN a ELSE GCD(b, a % b)

Abs(n) == IF n < 0 THEN -n ELSE n

Rat(n, d) ==
    LET s == IF d < 0 THEN -1 ELSE 1
        g == GCD(Abs(n), Abs(d))
    IN  IF n = 0 THEN <<0, 1>> ELSE <<(s * n) \div g, (s * d) \div g>>

RInt(n) == <<n, 1>>
RAdd(x, y) == Rat(x[1] * y[2] + y[1] * x[2], x[2] * y[2])
RSub(x, y) == Rat(x[1] * y[2] - y[1] * x[2], x[2] * y[2])
RMul(x, y) == Rat(x[1] * y[1], x[2] * y[2])
RDiv(x, y) == Rat(x[1] * y[2], x[2] * y[1])
RLess(x, y) == x[1] * y[2] < y[1] * x[2]
RPos(x) == x[1] > 0

RECURSIVE RSum(_)
RSum(s) == IF s = <<>> THEN RInt(0) ELSE RAdd(Head(s), RSum(Tail(s)))

RECURSIVE ISum(_)
ISum(s) == IF s = <<>> THEN 0 ELSE Head(s) + ISum(Tail(s))

Min(a, b) == IF a < b THEN a ELSE b

\* ------------------------------------------------------------------- state
VARIABLES
    ledger,              \* the transactions table: a set of rows
    portfolio_assets,    \* asset_id -> the PortfolioAsset row, or NoRow
    transactions,        \* recalculate_asset_state: the rows its query returned
    tx_index,            \* recalculate_asset_state: position of the for loop
    buy_lots,            \* recalculate_asset_state: the open lots, oldest first
    sell_quantity,       \* recalculate_asset_state: quantity still to sell
    cost_of_goods_sold,  \* recalculate_asset_state: cost consumed by this SELL
    realized_pnl,        \* recalculate_asset_state: realized P&L so far
    pc,                  \* recalculate_asset_state: where the replay stands
    prev_row,            \* <<the row the previous replay stored>>, <<>> before it
    next_id,             \* the id the next inserted transaction gets
    price_data,          \* asset_id -> <<close>> of its price series, <<>>: no data
    start_date,          \* _get_portfolio_history: <<start_date>>, <<>> for None
    end_date,            \* _get_portfolio_history: end_date
    all_transactions,    \* _get_portfolio_history: the rows it is given
    holdings,            \* _get_portfolio_history: asset_id -> quantity held
    date_range,          \* _get_portfolio_history: the timestamps still to visit
    history,             \* _get_portfolio_history: the points appended so far
    hpc,                 \* _get_portfolio_history: where the walk stands
    request,             \* the arguments of the reporting call made
    response,            \* what the reporting call returned or raised
    performance_history, \* the portfolio_performance_history table
    clock,               \* the time: [tick, seq], seq orders the instants of a tick
    created_at,          \* transaction id -> Transaction.created_at
    sessions,            \* request -> the get_performance_history call it serves
    last_op,             \* the operation that ended last, and how it ended
    price_cache,         \* _get_price_data: the assets whose series is cached
    fetches              \* asset_id -> the fetch_ticker_data calls made for it

perf_vars == <<request, response, performance_history>>

hist_vars == <<price_data, start_date, end_date, all_transactions, holdings,
               date_range, history, hpc,
              price_cache, fetches>>

replay_vars == <<transactions, tx_index, buy_lots, sell_quantity,
                 cost_of_goods_sold, realized_pnl, pc, prev_row>>

cache_vars == <<clock, created_at, sessions, last_op>>

vars == <<ledger, portfolio_assets, next_id, replay_vars, hist_vars, perf_vars,
          cache_vars>>

Assets == {1, 2}
\* No PortfolioAsset row for the pair.
NoRow == [present |-> FALSE]
\* An optional amount: <<>> is None, otherwise a rational.
NoValue == <<>>
\* What get_current_price gives: a price, nothing (None), or an exception.
CurrentPrices == {3}
PriceOutcomes ==
    [kind : {"price"}, value : CurrentPrices]
        \cup {[kind |-> "none", value |-> 0], [kind |-> "error", value |-> 0]}

Transaction(id, asset_id, type, quantity, price, total_amount, date) ==
    [id |-> id, asset_id |-> asset_id, transaction_type |-> type,
     quantity |-> quantity, price |-> price, total_amount |-> total_amount,
     transaction_date |-> date]

\* --------------------------------------------- recalculate_asset_state
\* CASE expression of the ORDER BY: BUY 1, SELL 2, anything else 3.
buy_first_sort_order(tx) ==
    IF tx.transaction_type = "BUY" THEN 1
    ELSE IF tx.transaction_type = "SELL" THEN 2 ELSE 3

\* ORDER BY transaction_date ASC only: the tie-break on the type is lost.
OrderedByDateOnly(a, b) == a.transaction_date <= b.transaction_date

\* ORDER BY transaction_date ASC, buy_first_sort_order ASC.
OrderedBy(a, b) ==
    \/ a.transaction_date < b.transaction_date
    \/ /\ a.transaction_date = b.transaction_date
       /\ buy_first_sort_order(a) <= buy_first_sort_order(b)

Permutations_(S) ==
    LET n == Cardinality(S)
    IN  {s \in [1..n -> S] : \A e \in S : \E i \in 1..n : s[i] = e}

\* The result lists the query can return: every arrangement of the rows that
\* respects the ORDER BY.  Rows equal in both sort keys come in an order SQL
\* leaves to the database.
QueryTransactions(rows, asset_id) ==
    LET S == {t \in rows : t.asset_id = asset_id}
    IN  {s \in Permutations_(S) :
            \A i, j \in 1..Len(s) : i < j => OrderedBy(s[i], s[j])}

\* One pass of the while loop, taking from the newest lot instead.
SellFromNewestLot(st) ==
    LET n == Len(st.buy_lots)
        lot == st.buy_lots[n]
        k == Min(st.sell_quantity, lot.quantity)
        portion == RMul(Rat(k, lot.quantity), lot.total_amount)
        rest == SubSeq(st.buy_lots, 1, n - 1)
        lot2 == [quantity |-> lot.quantity - k,
                 total_amount |-> RSub(lot.total_amount, portion)]
    IN  [buy_lots |-> IF lot2.quantity <= 0 THEN rest ELSE rest \o <<lot2>>,
         sell_quantity |-> st.sell_quantity - k,
         cost_of_goods_sold |-> RAdd(st.cost_of_goods_sold, portion)]

\* One pass of the while loop without the min(): the whole remaining quantity
\* is charged to the oldest lot, however little it holds.
SellFromOldestLotUnclamped(st) ==
    LET oldest_lot == Head(st.buy_lots)
        k == st.sell_quantity
        portion == RMul(Rat(k, oldest_lot.quantity), oldest_lot.total_amount)
        lot2 == [quantity |-> oldest_lot.quantity - k,
                 total_amount |-> RSub(oldest_lot.total_amount, portion)]
    IN  [buy_lots |-> IF lot2.quantity <= 0
                      THEN Tail(st.buy_lots)
                      ELSE <<lot2>> \o Tail(st.buy_lots),
         sell_quantity |-> st.sell_quantity - k,
         cost_of_goods_sold |-> RAdd(st.cost_of_goods_sold, portion)]

\* One pass of the body of `while sell_quantity > 0 and buy_lots`.
SellFromOldestLot(st) ==
    LET oldest_lot == Head(st.buy_lots)
        quantity_to_sell_from_lot == Min(st.sell_quantity, oldest_lot.quantity)
        taken == oldest_lot.quantity > 0
        cost_basis_portion ==
            IF taken
            THEN RMul(Rat(quantity_to_sell_from_lot, oldest_lot.quantity),
                      oldest_lot.total_amount)
            ELSE RInt(0)
        lot2 == IF taken
                THEN [quantity |-> oldest_lot.quantity - quantity_to_sell_from_lot,
                      total_amount |-> RSub(oldest_lot.total_amount, cost_basis_portion)]
                ELSE oldest_lot
    IN  [buy_lots |-> IF lot2.quantity <= 0
                      THEN Tail(st.buy_lots)
                      ELSE <<lot2>> \o Tail(st.buy_lots),
         sell_quantity |-> st.sell_quantity - quantity_to_sell_from_lot,
         cost_of_goods_sold |-> RAdd(st.cost_of_goods_sold, cost_basis_portion)]

\* The loop condition of the while.
SellLoopRuns(st) == st.sell_quantity > 0 /\ st.buy_lots # <<>>

RECURSIVE SellLoop(_)
SellLoop(st) == IF SellLoopRuns(st) THEN SellLoop(SellFromOldestLot(st)) ELSE st

\* realized_pnl += (sell_proceeds - cost_of_goods_sold)
RealizedAfterSell(realized, sell_proceeds, cogs) ==
    RAdd(realized, RSub(RInt(sell_proceeds), cogs))

BuyLot(tx) == [quantity |-> tx.quantity, total_amount |-> RInt(tx.total_amount)]

\* The body of `for tx in transactions`, on st = [buy_lots, realized_pnl].
ApplyTransaction(st, tx) ==
    IF tx.transaction_type = "BUY"
    THEN [st EXCEPT !.buy_lots = Append(@, BuyLot(tx))]
    ELSE IF tx.transaction_type = "SELL"
    THEN LET done == SellLoop([buy_lots |-> st.buy_lots,
                               sell_quantity |-> tx.quantity,
                               cost_of_goods_sold |-> RInt(0)])
         IN  [buy_lots |-> done.buy_lots,
              realized_pnl |-> RealizedAfterSell(st.realized_pnl, tx.total_amount,
                                                 done.cost_of_goods_sold)]
    ELSE st

RECURSIVE ReplayFrom(_, _)
ReplayFrom(st, txs) ==
    IF txs = <<>> THEN st ELSE ReplayFrom(ApplyTransaction(st, Head(txs)), Tail(txs))

\* The whole for loop over an ordered list of rows.
Replay(txs) == ReplayFrom([buy_lots |-> <<>>, realized_pnl |-> RInt(0)], txs)

LotQuantities(lots) == [i \in 1..Len(lots) |-> lots[i].quantity]
LotAmounts(lots) == [i \in 1..Len(lots) |-> lots[i].total_amount]

\* The row recalculate_asset_state leaves for the pair (NoRow: deleted), from
\* the row it found, the lots and the P&L of the replay and the price lookup.
StoredRow(found, txs, lots, realized, price) ==
    LET current_quantity == ISum(LotQuantities(lots))
        total_cost == RSum(LotAmounts(lots))
        old_value == IF found.present THEN found.current_value ELSE NoValue
    IN  IF txs = <<>> THEN NoRow
        ELSE [present |-> TRUE,
              quantity |-> current_quantity,
              cost_basis_total |-> total_cost,
              cost_basis |-> IF current_quantity > 0
                             THEN RDiv(total_cost, RInt(current_quantity))
                             ELSE RInt(0),
              realized_pnl |-> realized,
              current_value |->
                  IF current_quantity > 0
                  THEN IF price.kind = "error" THEN NoValue
                       ELSE IF price.kind = "none" THEN old_value
                       ELSE RInt(price.value * current_quantity)
                  ELSE RInt(0)]

\* ------------------------------------------- the replay, one step at a time
\* The pair whose ledger the replay specification walks through.
ReplayAsset == CHOOSE a \in Assets : \A b \in Assets : a <= b

TxShapes ==
    [transaction_type : TxTypes, quantity : Quantities,
     total_amount : TotalAmounts, transaction_date : ReplayDates]

ShapeLeq(a, b) ==
    LET ka == <<a.transaction_date, buy_first_sort_order(a), a.quantity, a.total_amount>>
        kb == <<b.transaction_date, buy_first_sort_order(b), b.quantity, b.total_amount>>
    IN  \/ ka = kb
        \/ \E i \in 1..4 : ka[i] < kb[i] /\ \A j \in 1..(i - 1) : ka[j] = kb[j]

\* The unit price of the rows of the replay specification; the replay reads
\* quantity and total_amount only.
ReplayPrice == CHOOSE p \in Prices : \A q \in Prices : p <= q

\* Every ledger of at most max rows for one pair, each multiset of rows once
\* (the ids follow the order of the shapes; the query does not read the id).
ReplayLedgers(max) ==
    UNION {
        { {Transaction(i, ReplayAsset, f[i].transaction_type, f[i].quantity,
                       ReplayPrice, f[i].total_amount, f[i].transaction_date)
             : i \in 1..n}
          : f \in {g \in [1..n -> TxShapes] :
                      \A i \in 1..(n - 1) : ShapeLeq(g[i], g[i + 1])} }
        : n \in 0..max }

ReplayIdle ==
    /\ transactions = <<>> /\ tx_index = 0 /\ buy_lots = <<>>
    /\ sell_quantity = 0 /\ cost_of_goods_sold = RInt(0)
    /\ realized_pnl = RInt(0) /\ pc = "idle"

\* No reporting call has been made.
NoRequest == [op |-> "none"]
NoResponse == [kind |-> "none"]
PerfIdle ==
    /\ request = NoRequest /\ response = NoResponse /\ performance_history = {}

\* The clock stands at its start and no request is being served.
Requests == {1, 2}
NoSession == [pc |-> "idle"]
NoOperation == [op |-> "none", outcome |-> "ok", seq |-> 0]
CacheIdle ==
    /\ clock = [tick |-> 0, seq |-> 0]
    /\ created_at = <<>>
    /\ sessions = [p \in Requests |-> NoSession]
    /\ last_op = NoOperation

\* No history is being built.
HistoryIdle ==
    /\ price_data = [a \in Assets |-> <<>>]
    /\ start_date = <<>> /\ end_date = 0
    /\ all_transactions = {}
    /\ holdings = [a \in Assets |-> 0]
    /\ date_range = <<>> /\ history = <<>>
    /\ hpc = "idle"
    /\ price_cache = {} /\ fetches = [a \in Assets |-> 0]

\* A ledger whose rows are committed and whose pair has no PortfolioAsset row
\* yet: the state a bulk import leaves, and the one fix_asset_quantities.py
\* starts from.
InitReplay ==
    /\ ledger \in ReplayLedgers(MaxTx)
    /\ portfolio_assets = [a \in Assets |-> NoRow]
    /\ prev_row = <<>>
    /\ next_id = Cardinality(ledger) + 1
    /\ ReplayIdle
    /\ HistoryIdle
    /\ PerfIdle
    /\ CacheIdle

\* lines 927-943: the query, then buy_lots = [], realized_pnl = 0
RunQuery ==
    /\ pc = "idle"
    /\ \E result \in QueryTransactions(ledger, ReplayAsset) :
          transactions' = result
    /\ tx_index' = 1
    /\ buy_lots' = <<>>
    /\ realized_pnl' = RInt(0)
    /\ sell_quantity' = 0
    /\ cost_of_goods_sold' = RInt(0)
    /\ pc' = "for"
    /\ UNCHANGED <<cache_vars, perf_vars, hist_vars, ledger, next_id, portfolio_assets, prev_row>>

\* lines 946-947
ReplayBuy ==
    /\ pc = "for" /\ tx_index <= Len(transactions)
    /\ transactions[tx_index].transaction_type = "BUY"
    /\ buy_lots' = Append(buy_lots, BuyLot(transactions[tx_index]))
    /\ tx_index' = tx_index + 1
    /\ UNCHANGED <<cache_vars, perf_vars, hist_vars, ledger, next_id, portfolio_assets, prev_row, transactions,
                   sell_quantity, cost_of_goods_sold, realized_pnl, pc>>

\* lines 948-951
ReplaySellBegin ==
    /\ pc = "for" /\ tx_index <= Len(transactions)
    /\ transactions[tx_index].transaction_type = "SELL"
    /\ sell_quantity' = transactions[tx_index].quantity
    /\ cost_of_goods_sold' = RInt(0)
    /\ pc' = "while"
    /\ UNCHANGED <<cache_vars, perf_vars, hist_vars, ledger, next_id, portfolio_assets, prev_row, transactions,
                   tx_index, buy_lots, realized_pnl>>

WhileState ==
    [buy_lots |-> buy_lots, sell_quantity |-> sell_quantity,
     cost_of_goods_sold |-> cost_of_goods_sold]

\* lines 953-967: one pass of the while loop
ReplaySellFromLot ==
    /\ pc = "while" /\ SellLoopRuns(WhileState)
    /\ LET st == SellFromOldestLot(WhileState)
       IN  /\ buy_lots' = st.buy_lots
           /\ sell_quantity' = st.sell_quantity
           /\ cost_of_goods_sold' = st.cost_of_goods_sold
    /\ UNCHANGED <<cache_vars, perf_vars, hist_vars, ledger, next_id, portfolio_assets, prev_row, transactions,
                   tx_index, realized_pnl, pc>>

\* line 969, when the while loop has ended
ReplaySellEnd ==
    /\ pc = "while" /\ ~SellLoopRuns(WhileState)
    /\ realized_pnl' = RealizedAfterSell(realized_pnl,
                                         transactions[tx_index].total_amount,
                                         cost_of_goods_sold)
    /\ tx_index' = tx_index + 1
    /\ pc' = "for"
    /\ UNCHANGED <<cache_vars, perf_vars, hist_vars, ledger, next_id, portfolio_assets, prev_row, transactions,
                   buy_lots, sell_quantity, cost_of_goods_sold>>

\* lines 971-1019: the row is written and committed, and the call returns
ReplayStore ==
    /\ pc = "for" /\ tx_index > Len(transactions)
    /\ \E price \in PriceOutcomes :
          portfolio_assets' =
              [portfolio_assets EXCEPT ![ReplayAsset] =
                  StoredRow(@, transactions, buy_lots, realized_pnl, price)]
    /\ prev_row' = <<portfolio_assets[ReplayAsset]>>
    /\ transactions' = <<>> /\ tx_index' = 0 /\ buy_lots' = <<>>
    /\ sell_quantity' = 0 /\ cost_of_goods_sold' = RInt(0)
    /\ realized_pnl' = RInt(0) /\ pc' = "idle"
    /\ UNCHANGED <<cache_vars, perf_vars, hist_vars, ledger, next_id>>

NextReplay ==
    \/ RunQuery
    \/ ReplayBuy
    \/ ReplaySellBegin
    \/ ReplaySellFromLot
    \/ ReplaySellEnd
    \/ ReplayStore

SpecReplay == InitReplay /\ [][NextReplay]_vars

\* ------------------------------------------------- claims about the replay
Processed == SubSeq(transactions, 1, tx_index - 1)

AmountsOf(txs, type) ==
    [i \in 1..Len(txs) |->
        IF txs[i].transaction_type = type THEN txs[i].total_amount ELSE 0]

\* Quantity held after the first n rows when a SELL larger than the holding
\* empties it.
RECURSIVE HeldAfter(_, _)
HeldAfter(txs, n) ==
    IF n = 0 THEN 0
    ELSE LET h == HeldAfter(txs, n - 1)
             t == txs[n]
         IN  IF t.transaction_type = "BUY" THEN h + t.quantity
             ELSE IF h > t.quantity THEN h - t.quantity ELSE 0

\* Row n of txs is a SELL of more than what is held when it is reached.
Oversells(txs, n) ==
    /\ n >= 1
    /\ txs[n].transaction_type = "SELL"
    /\ txs[n].quantity > HeldAfter(txs, n - 1)

SameOutcome(r1, r2) ==
    /\ r1.quantity = r2.quantity
    /\ r1.cost_basis_total = r2.cost_basis_total
    /\ r1.realized_pnl = r2.realized_pnl

\* A step of the while loop
SellStep == pc = "while" /\ pc' = "while" /\ sell_quantity' # sell_quantity

C1_SellStep ==
    SellStep =>
        LET oldest == Head(buy_lots)
            taken == sell_quantity - sell_quantity'
        IN  /\ taken > 0
            /\ \/ \* the oldest lot is exhausted and leaves; the others are untouched
                  /\ taken = oldest.quantity
                  /\ buy_lots' = Tail(buy_lots)
                  /\ cost_of_goods_sold' =
                         RAdd(cost_of_goods_sold, oldest.total_amount)
               \/ \* the oldest lot stays open, so the sale is served in full,
                  \* and its quantity and its cost shrink in the same proportion
                  /\ Len(buy_lots') = Len(buy_lots)
                  /\ Tail(buy_lots') = Tail(buy_lots)
                  /\ sell_quantity' = 0
                  /\ Head(buy_lots').quantity = oldest.quantity - taken
                  /\ RMul(Head(buy_lots').total_amount, RInt(oldest.quantity))
                       = RMul(oldest.total_amount, RInt(Head(buy_lots').quantity))
                  /\ cost_of_goods_sold' =
                         RAdd(cost_of_goods_sold,
                              RSub(oldest.total_amount, Head(buy_lots').total_amount))

C1_Realized ==
    pc = "for" =>
        realized_pnl =
            RSub(RInt(ISum(AmountsOf(Processed, "SELL"))),
                 RSub(RInt(ISum(AmountsOf(Processed, "BUY"))),
                      RSum(LotAmounts(buy_lots))))

\* C1: in the FIFO replay every SELL takes from the oldest open lot first and
\* goes on to the next lot only when the oldest is exhausted; a partial
\* consumption reduces the lot's quantity and cost in the same proportion; the
\* realized P&L is the proceeds of the sales minus the cost consumed from the
\* lots, accumulated over the sales.
C1_FifoReplay == [](C1_Realized) /\ [][C1_SellStep]_vars

\* A sale of 2 has emptied a first lot and left half of a lot bought for 3.
C1_Witness ==
    /\ pc = "while" /\ sell_quantity = 0
    /\ transactions[tx_index].quantity = 2
    /\ Len(buy_lots) = 1
    /\ Head(buy_lots) = [quantity |-> 1, total_amount |-> <<3, 2>>]
    /\ RLess(RInt(3), RMul(cost_of_goods_sold, RInt(2)))

C4_BuyBeforeSell ==
    pc \in {"for", "while"} =>
        /\ {transactions[i] : i \in 1..Len(transactions)}
              = {t \in ledger : t.asset_id = ReplayAsset}
        /\ \A i, j \in 1..Len(transactions) :
              i < j => transactions[i].transaction_date <= transactions[j].transaction_date
        /\ pc = "while" =>
              \A j \in (tx_index + 1)..Len(transactions) :
                  ~ /\ transactions[j].transaction_type = "BUY"
                    /\ transactions[j].transaction_date
                          <= transactions[tx_index].transaction_date

\* A SELL is being matched against a lot bought on its own date.
C4_Witness ==
    /\ pc = "while" /\ sell_quantity < transactions[tx_index].quantity
    /\ \E i \in 1..(tx_index - 1) :
          /\ transactions[i].transaction_type = "BUY"
          /\ transactions[i].transaction_date
                = transactions[tx_index].transaction_date
    /\ \A i \in 1..(tx_index - 1) :
          transactions[i].transaction_date = transactions[tx_index].transaction_date

\* C5: two replays of one unchanged ledger store the same quantity, total
\* cost basis and realized P&L.
C5_ReplayIdempotent ==
    (pc = "idle" /\ prev_row # <<>> /\ prev_row[1].present) =>
        SameOutcome(prev_row[1], portfolio_assets[ReplayAsset])

\* ------------------------------------------------- the ledger operations
\* Every row recalculate_asset_state can leave for the pair when it runs to
\* its end over the rows given: one for each result list of its query and
\* each outcome of the price lookup.
recalculate_asset_state(rows, found, asset_id) ==
    {StoredRow(found, o, Replay(o).buy_lots, Replay(o).realized_pnl, price) :
        o \in QueryTransactions(rows, asset_id), price \in PriceOutcomes}

\* An absent field of an update: transaction_data.dict(exclude_unset=True).
Unset == <<>>
Optional(S) == {Unset} \cup {<<v>> : v \in S}
UpdateFields ==
    {"quantity", "price", "total_amount", "transaction_date", "transaction_type"}
\* The updates of a request that sets at most one field; a request that sets
\* several leads to a ledger that a sequence of these reaches as well.
TransactionUpdates ==
    {u \in [quantity : Optional(Quantities), price : Optional(Prices),
            total_amount : Optional(TotalAmounts),
            transaction_date : Optional(ReplayDates),
            transaction_type : Optional(TxTypes)] :
        Cardinality({f \in UpdateFields : u[f] # Unset}) <= 1}

Updated(old, field, update_data) ==
    IF update_data[field] = Unset THEN old[field] ELSE update_data[field][1]

\* Types a bulk import reads: "deposit" stands for the four it skips.
BulkTypes == TxTypes \cup {"deposit"}
BulkTransactionItems ==
    [asset_id : Assets, transaction_type : BulkTypes, quantity : Quantities,
     price : Prices, total_amount : TotalAmounts, transaction_date : ReplayDates]

InitLedger ==
    /\ ledger = {}
    /\ portfolio_assets = [a \in Assets |-> NoRow]
    /\ next_id = 1
    /\ prev_row = <<>>
    /\ ReplayIdle
    /\ HistoryIdle
    /\ PerfIdle
    /\ CacheIdle

AddTransaction ==
    \E asset_id \in Assets, type \in TxTypes, quantity \in Quantities,
       price \in Prices, date \in ReplayDates :
        LET tx == Transaction(next_id, asset_id, type, quantity, price,
                              quantity * price, date)
        IN  /\ next_id <= MaxLedger
            /\ ledger' = ledger \cup {tx}
            /\ next_id' = next_id + 1
            /\ \E row \in recalculate_asset_state(ledger', portfolio_assets[asset_id],
                                                  asset_id) :
                  portfolio_assets' = [portfolio_assets EXCEPT ![asset_id] = row]
            /\ UNCHANGED <<cache_vars, replay_vars, hist_vars, perf_vars>>

UpdateTransaction ==
    \E transaction \in ledger, update_data \in TransactionUpdates :
        LET asset_id_to_recalculate == transaction.asset_id
            quantity == Updated(transaction, "quantity", update_data)
            price == Updated(transaction, "price", update_data)
            total_amount ==
                IF update_data.quantity # Unset \/ update_data.price # Unset
                THEN quantity * price
                ELSE Updated(transaction, "total_amount", update_data)
            tx == Transaction(transaction.id, transaction.asset_id,
                              Updated(transaction, "transaction_type", update_data),
                              quantity, price, total_amount,
                              Updated(transaction, "transaction_date", update_data))
        IN  /\ ledger' = (ledger \ {transaction}) \cup {tx}
            /\ \E row \in recalculate_asset_state(
                              ledger', portfolio_assets[asset_id_to_recalculate],
                              asset_id_to_recalculate) :
                  portfolio_assets' =
                      [portfolio_assets EXCEPT ![asset_id_to_recalculate] = row]
            /\ UNCHANGED <<cache_vars, next_id, replay_vars, hist_vars, perf_vars>>

DeleteTransaction ==
    \E transaction \in ledger :
        LET asset_id == transaction.asset_id
        IN  /\ ledger' = ledger \ {transaction}
            /\ \E row \in recalculate_asset_state(ledger', portfolio_assets[asset_id],
                                                  asset_id) :
                  portfolio_assets' = [portfolio_assets EXCEPT ![asset_id] = row]
            /\ UNCHANGED <<cache_vars, next_id, replay_vars, hist_vars, perf_vars>>

\* The rows the loop of create_bulk_transactions adds and flushes, the first of
\* them under the id given; a skipped type adds none.
RECURSIVE BulkRows(_, _)
BulkRows(items, id) ==
    IF items = <<>> THEN {}
    ELSE LET item == Head(items)
         IN  IF item.transaction_type \notin TxTypes
             THEN BulkRows(Tail(items), id)
             ELSE {Transaction(id, item.asset_id, item.transaction_type,
                               item.quantity, item.price, item.total_amount,
                               item.transaction_date)}
                      \cup BulkRows(Tail(items), id + 1)

\* After the flush the loop calls update_portfolio_asset_from_transaction, a
\* method PortfolioService does not have: the AttributeError is caught by the
\* loop's `except Exception`, the row stays in the session and the commit
\* after the loop stores it.  No PortfolioAsset row is touched.
CreateBulkTransactions ==
    \E n \in 1..MaxBulk : \E transactions_data \in [1..n -> BulkTransactionItems] :
        LET rows == BulkRows(transactions_data, next_id)
        IN  /\ next_id + Cardinality(rows) - 1 <= MaxLedger
            /\ ledger' = ledger \cup rows
            /\ next_id' = next_id + Cardinality(rows)
            /\ UNCHANGED <<cache_vars, portfolio_assets, replay_vars, hist_vars, perf_vars>>

Next ==
    \/ AddTransaction
    \/ UpdateTransaction
    \/ DeleteTransaction
    \/ CreateBulkTransactions

Spec == InitLedger /\ [][Next]_vars

\* ------------------------------------------------ claims about the ledger
RowsOf(asset_id) == {t \in ledger : t.asset_id = asset_id}

\* The stored row of the pair is what a replay of its rows gives.
MatchesReplay(asset_id) ==
    LET row == portfolio_assets[asset_id]
    IN  IF RowsOf(asset_id) = {} THEN ~row.present
        ELSE /\ row.present
             /\ \E o \in QueryTransactions(ledger, asset_id) :
                   /\ row.quantity = ISum(LotQuantities(Replay(o).buy_lots))
                   /\ row.cost_basis_total = RSum(LotAmounts(Replay(o).buy_lots))
                   /\ row.realized_pnl = Replay(o).realized_pnl

\* C2: after every ledger operation the stored quantity, total cost basis and
\* realized P&L of each pair are those of a FIFO replay of the pair's rows.
C2_StoredMatchesReplay == \A a \in Assets : MatchesReplay(a)

\* ---------------------------------------------------- _get_portfolio_history
\* datetime.date(): the calendar day of a timestamp.
DateOf(ts) == ts \div TicksPerDay

\* timedelta(days=1)
OneDay == TicksPerDay

\* pd.date_range(start, end, freq="D"): start, start + 1 day, ... while <= end.
\* Each entry keeps the time of day of start.
RECURSIVE pd_date_range(_, _)
pd_date_range(start, end) ==
    IF start > end THEN <<>> ELSE <<start>> \o pd_date_range(start + OneDay, end)

SignedQuantity(t) ==
    IF t.transaction_type = "BUY" THEN t.quantity
    ELSE IF t.transaction_type = "SELL" THEN 0 - t.quantity ELSE 0

RECURSIVE SumSigned(_)
SumSigned(S) ==
    IF S = {} THEN 0
    ELSE LET t == CHOOSE x \in S : TRUE IN SignedQuantity(t) + SumSigned(S \ {t})

\* _get_holdings_at_date: the rows with transaction_date <= target_date, summed
\* per asset; an asset whose sum is not above 1e-9 is left out (held: 0).
get_holdings_at_date(txs, target_date) ==
    [a \in Assets |->
        LET v == SumSigned({t \in txs : t.asset_id = a
                                        /\ t.transaction_date <= target_date})
        IN  IF v > 0 THEN v ELSE 0]

\* transactions_by_date[date_key]
TransactionsByDate(txs, date_key) == {t \in txs : DateOf(t.transaction_date) = date_key}

\* total_value of one day: every asset held above 1e-9 whose price series
\* gives a close (_get_price_for_date is None on an empty frame) adds
\* quantity * price; an asset without one adds nothing.
TotalValue(h, prices) ==
    LET Value(a) == IF h[a] > 0 /\ prices[a] # <<>> THEN h[a] * prices[a][1] ELSE 0
        RECURSIVE Sum(_)
        Sum(S) == IF S = {} THEN 0
                  ELSE LET a == CHOOSE x \in S : TRUE IN Value(a) + Sum(S \ {a})
    IN  Sum(Assets)

\* The holdings after the rows of one day are applied, in the walk.
ApplyDay(h, txs) == [a \in Assets |-> h[a] + SumSigned({t \in txs : t.asset_id = a})]

HistShapes ==
    [asset_id : Assets, transaction_type : TxTypes, quantity : Quantities,
     transaction_date : Timestamps]

HistShapeLeq(a, b) ==
    LET ka == <<a.transaction_date, a.asset_id, buy_first_sort_order(a), a.quantity>>
        kb == <<b.transaction_date, b.asset_id, buy_first_sort_order(b), b.quantity>>
    IN  \/ ka = kb
        \/ \E i \in 1..4 : ka[i] < kb[i] /\ \A j \in 1..(i - 1) : ka[j] = kb[j]

\* Every ledger of 1..max rows, each multiset of rows once; the walk
\* reads asset_id, transaction_type, quantity and transaction_date.
HistoryLedgers(max) ==
    UNION {
        { {Transaction(i, f[i].asset_id, f[i].transaction_type, f[i].quantity,
                       ReplayPrice, f[i].quantity * ReplayPrice,
                       f[i].transaction_date) : i \in 1..n}
          : f \in {g \in [1..n -> HistShapes] :
                      \A i \in 1..(n - 1) : HistShapeLeq(g[i], g[i + 1])} }
        : n \in 1..max }

\* Earliest transaction_date of a non-empty set of rows.
FirstDate(txs) ==
    CHOOSE d \in {t.transaction_date : t \in txs} :
        \A t \in txs : d <= t.transaction_date

\* _get_transactions(portfolio_id, None, end_date)
get_transactions(rows, end) == {t \in rows : t.transaction_date <= end}

\* The start dates calculate_portfolio_performance passes on for end_date:
\* None (inception, also taken when the first row is later than the start of
\* the period), end_date moved back by whole days (the relative periods), or
\* the midnight of a day (year to date).
StartDates(txs, end) ==
    {NoValue} \cup
    {<<s>> : s \in {u \in Timestamps :
                      /\ u <= end
                      /\ FirstDate(txs) <= u
                      /\ \/ u % TicksPerDay = end % TicksPerDay
                         \/ u % TicksPerDay = 0}}

\* calculate_portfolio_performance has read the rows up to end_date, found
\* some, and is about to call _get_portfolio_history.
InitHistory ==
    /\ ledger \in HistoryLedgers(MaxHistTx)
    /\ portfolio_assets = [a \in Assets |-> NoRow]
    /\ next_id = Cardinality(ledger) + 1
    /\ prev_row = <<>>
    /\ ReplayIdle
    /\ price_data \in [Assets -> {<<>>} \cup {<<p>> : p \in CurrentPrices}]
    /\ end_date \in Timestamps
    /\ all_transactions = get_transactions(ledger, end_date)
    /\ all_transactions # {}
    /\ start_date \in StartDates(all_transactions, end_date)
    /\ holdings = [a \in Assets |-> 0]
    /\ date_range = <<>> /\ history = <<>>
    /\ hpc = "start"
    /\ price_cache = {} /\ fetches = [a \in Assets |-> 0]
    /\ PerfIdle
    /\ CacheIdle

PeriodStart == IF start_date = NoValue THEN FirstDate(all_transactions) ELSE start_date[1]

\* Up to the loop: the guards, the date range and the initial holdings.
HistoryBegin ==
    /\ hpc = "start"
    /\ IF all_transactions = {} \/ PeriodStart > end_date
       THEN /\ hpc' = "none"
            /\ UNCHANGED <<holdings, date_range>>
       ELSE /\ date_range' = pd_date_range(PeriodStart, end_date)
            /\ holdings' = get_holdings_at_date(all_transactions, PeriodStart - OneDay)
            /\ hpc' = "walk"
    /\ UNCHANGED <<cache_vars, perf_vars, ledger, portfolio_assets, next_id, replay_vars, price_data,
                   start_date, end_date, all_transactions, history,
                   price_cache, fetches>>

\* _get_price_data, called in one pass for every asset held above 1e-9: a
\* cached series is returned, any other is fetched from the market-data
\* service, and cached only if the fetch gave a frame that is not empty.
Fetched(h, cached) == {a \in Assets : h[a] > 0 /\ a \notin cached}

\* One pass of `for date in date_range`.
HistoryDay ==
    /\ hpc = "walk" /\ date_range # <<>>
    /\ LET date == Head(date_range)
           date_key == DateOf(date)
       IN  /\ holdings' = ApplyDay(holdings,
                                   TransactionsByDate(all_transactions, date_key))
           /\ history' = Append(history,
                                [date |-> date,
                                 value |-> TotalValue(holdings', price_data)])
           /\ fetches' = [a \in Assets |->
                             IF a \in Fetched(holdings', price_cache)
                             THEN fetches[a] + 1 ELSE fetches[a]]
           /\ price_cache' = price_cache
                                \cup {a \in Fetched(holdings', price_cache) :
                                         price_data[a] # <<>>}
    /\ date_range' = Tail(date_range)
    /\ UNCHANGED <<cache_vars, perf_vars, ledger, portfolio_assets, next_id, replay_vars, price_data,
                   start_date, end_date, all_transactions, hpc>>

\* After the loop: None for an empty history, the data frame otherwise.
HistoryReturn ==
    /\ hpc = "walk" /\ date_range = <<>>
    /\ hpc' = IF history = <<>> THEN "none" ELSE "done"
    /\ UNCHANGED <<cache_vars, perf_vars, ledger, portfolio_assets, next_id, replay_vars, price_data,
                   start_date, end_date, all_transactions, holdings, date_range,
                   history, price_cache, fetches>>

NextHistory == HistoryBegin \/ HistoryDay \/ HistoryReturn

SpecHistory == InitHistory /\ [][NextHistory]_vars

\* ------------------------------------------------ claims about the history
\* C6: the history returned has one point for each calendar day from the day
\* of the period's start to the day of end_date, in increasing order.
C6_OnePointPerDay ==
    hpc = "done" =>
        /\ Len(history) = DateOf(end_date) - DateOf(PeriodStart) + 1
        /\ \A i \in 1..Len(history) :
              DateOf(history[i].date) = DateOf(PeriodStart) + i - 1

\* No asset is ever sold below zero (at one timestamp, buys count first).
NeverOversold(txs) ==
    \A a \in Assets, ts \in Timestamps :
        SumSigned({t \in txs : t.asset_id = a /\ t.transaction_date <= ts}) >= 0

\* The net quantity of the asset over the rows dated on or before the day.
HeldThrough(txs, a, day) ==
    SumSigned({t \in txs : t.asset_id = a /\ DateOf(t.transaction_date) <= day})

C7_WalkStep ==
    (hpc = "walk" /\ history' # history /\ NeverOversold(all_transactions)) =>
        \A a \in Assets :
            holdings'[a] = HeldThrough(all_transactions, a, DateOf(Head(date_range)))

\* C7: on a ledger that never sells below zero, the holdings valued on a day
\* of the walk are the net quantity of every row dated on or before that day.
C7_EveryTransactionOnce == [][C7_WalkStep]_vars

\* ------------------------------------------- calculate_portfolio_performance
\* Period tokens of a request: three of PeriodType and one it does not know.
PeriodTokens == {"inception", "ytd", "3m", "bogus"}

Raise(exception) == [kind |-> "raise", exception |-> exception]

\* PeriodType.get_start_date: None for inception, the midnight that opens
\* the year (day 0 here) for ytd, base_date moved back by the period (one day
\* here, the time of day kept) for a relative period; any other token raises.
get_start_date(period, base_date) ==
    IF period = "inception" THEN [kind |-> "return", value |-> NoValue]
    ELSE IF period = "ytd" THEN [kind |-> "return", value |-> <<0>>]
    ELSE IF period = "3m" THEN [kind |-> "return", value |-> <<base_date - OneDay>>]
    ELSE Raise("ValueError")

\* What a helper's own computation comes to: a number, None, or an exception
\* thrown inside it (a failed price fetch, a solver error, a division by zero).
Outcomes == {"value", "none", "exception"}

\* The helper without its handler: the exception leaves it.
NoTryExcept(outcome) == IF outcome = "none" THEN "null" ELSE outcome

\* `try: ... except Exception: return None` around the body of a helper.
TryExcept(outcome) == IF outcome = "value" THEN "value" ELSE "null"

\* get_current_portfolio_value that adds up what is stored and reports nothing.
get_current_portfolio_value_silent(rows) ==
    [total_value |->
        RSum([a \in Assets |->
                IF rows[a].present /\ rows[a].current_value # NoValue
                THEN rows[a].current_value ELSE RInt(0)]),
     errors |-> {}]

\* get_current_portfolio_value: the stored current values added up; an error
\* naming the asset for each row without one and with a quantity above 0.
get_current_portfolio_value(rows) ==
    [total_value |->
        RSum([a \in Assets |->
                IF rows[a].present /\ rows[a].current_value # NoValue
                THEN rows[a].current_value ELSE RInt(0)]),
     errors |->
        {[kind |-> "no_current_value", asset_id |-> a] :
            a \in {b \in Assets : /\ rows[b].present
                                  /\ rows[b].current_value = NoValue
                                  /\ rows[b].quantity > 0}}]

NullMetrics(names) == [m \in names |-> "null"]

\* _empty_performance_result
empty_performance_result(period) ==
    [kind |-> "return", period |-> period, start_date |-> NoValue,
     current_value |-> RInt(0),
     errors |-> {[kind |-> "no_transactions", asset_id |-> 0]},
     metrics |-> NullMetrics({"cagr", "xirr", "twr", "mwr", "volatility",
                              "max_drawdown"})]

\* calculate_portfolio_performance on the rows of the ledger and the stored
\* PortfolioAsset rows.  hz gives the outcome of the body of each helper.  A
\* result without an "errors" key is given the empty set, as .get("errors", [])
\* reads it.
calculate_portfolio_performance(rows, stored, period, accessible, end, hz) ==
    LET start == get_start_date(period, end)
        txs == get_transactions(rows, end)
        younger == start.value # NoValue /\ FirstDate(txs) > start.value[1]
        actual_period == IF younger THEN "inception" ELSE period
        actual_start_date == IF younger THEN NoValue ELSE start.value
        current == get_current_portfolio_value(stored)
        history_df == TryExcept(hz.history)
        metrics == [m \in {"cagr", "xirr", "twr", "mwr", "volatility", "max_drawdown"} |->
                        IF m \in {"volatility", "max_drawdown"} THEN history_df
                        ELSE IF m = "mwr" THEN TryExcept(hz.xirr)
                        ELSE TryExcept(hz[m])]
    IN  IF start.kind = "raise" THEN start
        ELSE IF ~accessible THEN Raise("ValueError")
        ELSE IF txs = {} THEN empty_performance_result(period)
        ELSE IF current.errors # {}
        THEN [kind |-> "return", period |-> actual_period,
              start_date |-> actual_start_date,
              current_value |-> current.total_value,
              errors |-> current.errors,
              metrics |-> NullMetrics({"cagr", "xirr", "twr", "mwr"})]
        ELSE IF \E m \in DOMAIN metrics : metrics[m] = "exception"
        THEN Raise("Exception")
        ELSE [kind |-> "return", period |-> actual_period,
              start_date |-> actual_start_date,
              current_value |-> current.total_value,
              errors |-> {},
              metrics |-> metrics]

\* _create_cash_flows_from_transactions: a BUY is an outflow, a SELL an inflow.
create_cash_flows_from_transactions(txs) ==
    {[id |-> t.id, date |-> t.transaction_date,
      amount |-> IF t.transaction_type = "BUY" THEN 0 - t.total_amount
                 ELSE t.total_amount] :
        t \in {u \in txs : u.transaction_type \in {"BUY", "SELL"}}}

\* _empty_benchmark_performance_result: its message is under "error", so
\* .get("errors", []) reads an empty list from it.
empty_benchmark_performance_result(period) ==
    [kind |-> "return", period |-> period, errors |-> {},
     metrics |-> NullMetrics({"cagr", "xirr", "twr", "mwr"})]

\* `try: ... except Exception: return self._empty_benchmark_performance_result`
BenchmarkTryExcept(body, period) ==
    IF body.kind = "raise" THEN empty_benchmark_performance_result(period) ELSE body

\* calculate_benchmark_performance: price_data is "empty" or "data"; bhz gives
\* the outcome of each benchmark helper, which has a handler of its own.
calculate_benchmark_performance(cash_flows, period, end, benchmark_data, bhz) ==
    LET start == get_start_date(period, end)
        period_cash_flows ==
            IF start.value = NoValue THEN cash_flows
            ELSE {cf \in cash_flows : cf.date >= start.value[1]}
        metrics == [m \in {"cagr", "xirr", "twr", "mwr"} |->
                        IF m = "mwr" THEN TryExcept(bhz.xirr) ELSE TryExcept(bhz[m])]
        body ==
            IF benchmark_data = "empty" THEN Raise("ValueError")
            ELSE IF \E m \in DOMAIN metrics : metrics[m] = "exception"
            THEN Raise("Exception")
            ELSE [kind |-> "return", period |-> period, errors |-> {},
                  metrics |-> metrics]
    IN  IF start.kind = "raise" THEN start
        ELSE IF period_cash_flows = {}
        THEN empty_benchmark_performance_result(period)
        ELSE BenchmarkTryExcept(body, period)

\* _safe_subtract: None unless both sides are numbers.
safe_subtract(a, b) == IF a = "value" /\ b = "value" THEN "value" ELSE "null"

\* _is_outperforming: None unless both sides are numbers.
is_outperforming(a, b) == IF a = "value" /\ b = "value" THEN "value" ELSE "null"

\* compare_portfolio_to_benchmark
compare_portfolio_to_benchmark(rows, stored, period, accessible, end, hz, bdata, bhz) ==
    LET portfolio_performance ==
            calculate_portfolio_performance(rows, stored, period, accessible, end, hz)
        actual_period_for_benchmark == portfolio_performance.period
        cash_flows == create_cash_flows_from_transactions(get_transactions(rows, end))
        benchmark_performance ==
            calculate_benchmark_performance(cash_flows, actual_period_for_benchmark,
                                            end, bdata, bhz)
        errors == portfolio_performance.errors \cup benchmark_performance.errors
        pm == portfolio_performance.metrics
        bm == benchmark_performance.metrics
    IN  IF portfolio_performance.kind = "raise" THEN portfolio_performance
        ELSE IF benchmark_performance.kind = "raise" THEN benchmark_performance
        ELSE IF errors # {}
        THEN [kind |-> "return", period |-> actual_period_for_benchmark,
              portfolio_performance |-> portfolio_performance,
              benchmark_performance |-> benchmark_performance,
              errors |-> errors,
              comparison |-> NullMetrics({"cagr_difference", "xirr_difference",
                                          "outperforming_cagr", "outperforming_xirr"})]
        ELSE [kind |-> "return", period |-> actual_period_for_benchmark,
              portfolio_performance |-> portfolio_performance,
              benchmark_performance |-> benchmark_performance,
              errors |-> {},
              comparison |->
                  [cagr_difference |-> safe_subtract(pm.cagr, bm.cagr),
                   xirr_difference |-> safe_subtract(pm.xirr, bm.xirr),
                   twr_difference |-> safe_subtract(pm.twr, bm.twr),
                   outperforming_cagr |-> is_outperforming(pm.cagr, bm.cagr),
                   outperforming_xirr |-> is_outperforming(pm.xirr, bm.xirr),
                   outperforming_twr |-> is_outperforming(pm.twr, bm.twr)]]

\* ------------------------------------------------ create_performance_snapshot
\* The value of one row in the snapshot: price * quantity when the price
\* lookup gives one, the row's cost_basis_total when it gives none.
SnapshotValue(row, price) ==
    IF price.kind = "price" THEN RInt(price.value * row.quantity)
    ELSE row.cost_basis_total

\* create_performance_snapshot over the stored rows, prices[a] the outcome of
\* get_current_price for asset a: the PerformanceSnapshotResponse, or the
\* ValueError for a portfolio without PortfolioAsset rows.
create_performance_snapshot(stored, snapshot_date, prices) ==
    LET held == {a \in Assets : stored[a].present}
        total_cost_basis ==
            RSum([a \in Assets |->
                    IF a \in held THEN stored[a].cost_basis_total ELSE RInt(0)])
        total_current_value ==
            RSum([a \in Assets |->
                    IF a \in held THEN SnapshotValue(stored[a], prices[a])
                    ELSE RInt(0)])
    IN  IF held = {} THEN Raise("ValueError")
        ELSE [kind |-> "return",
              snapshot_date |-> snapshot_date,
              total_value |-> total_current_value,
              total_cost_basis |-> total_cost_basis,
              total_unrealized_pnl |-> RSub(total_current_value, total_cost_basis)]

\* ------------------------------------------------------ the reporting calls
\* Dates of the rows of the reporting specification: midnights of days 1 and 2.
PerfDates == {OneDay, 2 * OneDay}
\* End dates of a request: before every row, between the rows, after them.
EndDates == {0, OneDay + 1, 2 * OneDay + 1}
PerfShapes ==
    [asset_id : Assets, transaction_type : TxTypes, quantity : {1},
     transaction_date : PerfDates]

\* Every ledger of at most max rows, each multiset of rows once.
PerfLedgers(max) ==
    UNION {
        { {Transaction(i, f[i].asset_id, f[i].transaction_type, f[i].quantity,
                       ReplayPrice, f[i].quantity * ReplayPrice,
                       f[i].transaction_date) : i \in 1..n}
          : f \in {g \in [1..n -> PerfShapes] :
                      \A i \in 1..(n - 1) : HistShapeLeq(g[i], g[i + 1])} }
        : n \in 0..max }

\* A ledger and, for each pair, a row recalculate_asset_state leaves for it.
InitPerf ==
    /\ ledger \in PerfLedgers(MaxPerfTx)
    /\ portfolio_assets \in
          {f \in [Assets -> UNION {recalculate_asset_state(ledger, NoRow, a)
                                      : a \in Assets}] :
              \A a \in Assets : f[a] \in recalculate_asset_state(ledger, NoRow, a)}
    /\ next_id = Cardinality(ledger) + 1
    /\ prev_row = <<>>
    /\ ReplayIdle
    /\ HistoryIdle
    /\ PerfIdle
    /\ CacheIdle

Hazards == [history : Outcomes, cagr : Outcomes, xirr : Outcomes, twr : Outcomes]
BenchmarkHazards == [cagr : Outcomes, xirr : Outcomes, twr : Outcomes]
\* The benchmark's price frame and the outcomes of the helpers that read it;
\* on an empty frame no helper is called.
BenchmarkInputs ==
    {[data |-> "empty", hz |-> [cagr |-> "none", xirr |-> "none", twr |-> "none"]]}
        \cup [data : {"data"}, hz : BenchmarkHazards]
SnapshotPrices == [Assets -> {o \in PriceOutcomes : o.kind # "error"}]

CalculatePortfolioPerformance ==
    /\ response = NoResponse
    /\ \E period \in PeriodTokens, accessible \in BOOLEAN, end \in EndDates,
          hz \in Hazards :
          /\ request' = [op |-> "calculate_portfolio_performance",
                         period |-> period, accessible |-> accessible,
                         end_date |-> end]
          /\ response' = calculate_portfolio_performance(
                             ledger, portfolio_assets, period, accessible, end, hz)
    /\ UNCHANGED <<cache_vars, ledger, portfolio_assets, next_id, replay_vars, hist_vars,
                   performance_history>>

CompareToBenchmark ==
    /\ response = NoResponse
    /\ \E period \in PeriodTokens, accessible \in BOOLEAN, end \in EndDates,
          hz \in Hazards, benchmark \in BenchmarkInputs :
          /\ request' = [op |-> "compare_portfolio_to_benchmark",
                         period |-> period, accessible |-> accessible,
                         end_date |-> end, benchmark_data |-> benchmark.data]
          /\ response' = compare_portfolio_to_benchmark(
                             ledger, portfolio_assets, period, accessible, end, hz,
                             benchmark.data, benchmark.hz)
    /\ UNCHANGED <<cache_vars, ledger, portfolio_assets, next_id, replay_vars, hist_vars,
                   performance_history>>

CreatePerformanceSnapshot ==
    /\ response = NoResponse
    /\ \E snapshot_date \in EndDates, prices \in SnapshotPrices :
          /\ request' = [op |-> "create_performance_snapshot",
                         snapshot_date |-> snapshot_date, prices |-> prices]
          /\ response' = create_performance_snapshot(portfolio_assets, snapshot_date,
                                                     prices)
          /\ performance_history' =
                IF response'.kind = "return"
                THEN performance_history \cup
                        {[snapshot_date |-> snapshot_date,
                          total_value |-> response'.total_value,
                          total_cost_basis |-> response'.total_cost_basis]}
                ELSE performance_history
    /\ UNCHANGED <<cache_vars, ledger, portfolio_assets, next_id, replay_vars, hist_vars>>

NextPerf ==
    \/ CalculatePortfolioPerformance
    \/ CompareToBenchmark
    \/ CreatePerformanceSnapshot

SpecPerf == InitPerf /\ [][NextPerf]_vars

\* ---------------------------------------- claims about the reporting calls
\* Stored rows with a positive quantity whose price lookup gave no price.
Unpriced(a) ==
    /\ portfolio_assets[a].present
    /\ portfolio_assets[a].quantity > 0
    /\ request.prices[a].kind # "price"

\* The market value of the rows whose price lookup gave a price.
ValueOfPriced ==
    RSum([a \in Assets |->
            IF portfolio_assets[a].present /\ request.prices[a].kind = "price"
            THEN RInt(request.prices[a].value * portfolio_assets[a].quantity)
            ELSE RInt(0)])

\* The result has a field that can carry a diagnostic.
Flagged(result) == DOMAIN result \cap {"errors", "warnings", "diagnostics"} # {}

\* C8: a snapshot taken while a held asset has no price either carries a
\* diagnostic or holds the market value of the priced assets only.
C8_NoSilentCostBasis ==
    (request.op = "create_performance_snapshot" /\ response.kind = "return"
        /\ \E a \in Assets : Unpriced(a))
    => (Flagged(response) \/ response.total_value = ValueOfPriced)

\* A stored row with a positive quantity and no current value.
MissingValue(a) ==
    /\ portfolio_assets[a].present
    /\ portfolio_assets[a].quantity > 0
    /\ portfolio_assets[a].current_value = NoValue

Names(errors, a) == \E e \in errors : e.kind = "no_current_value" /\ e.asset_id = a

ReturnMetricsNull(result) ==
    \A m \in {"cagr", "xirr", "twr", "mwr"} : result.metrics[m] = "null"

PerformanceReturned ==
    request.op = "calculate_portfolio_performance" /\ response.kind = "return"

\* C9 as stated: whenever calculate_portfolio_performance returns and a held
\* asset has no stored current value, the errors name the asset and cagr,
\* xirr, twr and mwr are null.
C9_MissingValueNamed ==
    PerformanceReturned =>
        \A a \in Assets :
            MissingValue(a) => Names(response.errors, a) /\ ReturnMetricsNull(response)

\* C9, amended: the same when at least one transaction is dated on or before
\* end_date.
C9_MissingValueNamedWithTransactions ==
    (PerformanceReturned /\ get_transactions(ledger, request.end_date) # {}) =>
        \A a \in Assets :
            MissingValue(a) => Names(response.errors, a) /\ ReturnMetricsNull(response)

\* One asset is named for its missing value while another one has a value.
C9_Witness ==
    /\ PerformanceReturned
    /\ get_transactions(ledger, request.end_date) # {}
    /\ \E a, b \in Assets :
          /\ MissingValue(a) /\ Names(response.errors, a)
          /\ portfolio_assets[b].present /\ portfolio_assets[b].quantity > 0
          /\ ~MissingValue(b) /\ ~Names(response.errors, b)
    /\ ReturnMetricsNull(response)

ReportRequested ==
    request.op \in {"calculate_portfolio_performance", "compare_portfolio_to_benchmark"}

\* The request names a period PeriodType knows and a portfolio of the user.
ValidRequest == request.period \in {"inception", "ytd", "3m"} /\ request.accessible

\* The portfolio part of the result of either call.
PortfolioPart ==
    IF request.op = "compare_portfolio_to_benchmark"
    THEN response.portfolio_performance ELSE response

\* C10: calculate_portfolio_performance and compare_portfolio_to_benchmark
\* raise only on an unknown period or an inaccessible portfolio; with no
\* transaction up to end_date, with a held asset lacking its current value or
\* with a benchmark lacking price data they return, the metrics concerned null.
C10_RaisesOnlyOnInvalidInput ==
    ReportRequested =>
        /\ response.kind = "raise" <=> ~ValidRequest
        /\ response.kind = "return" =>
              /\ (get_transactions(ledger, request.end_date) = {}
                    \/ \E a \in Assets : MissingValue(a))
                 => ReturnMetricsNull(PortfolioPart)
              /\ (request.op = "compare_portfolio_to_benchmark"
                    /\ request.benchmark_data = "empty")
                 => /\ ReturnMetricsNull(response.benchmark_performance)
                    /\ \A d \in DOMAIN response.comparison :
                          response.comparison[d] = "null"

\* A comparison returned for a priced portfolio whose benchmark has no price
\* data: the portfolio has a CAGR, the benchmark metrics are null.
C10_Witness ==
    /\ request.op = "compare_portfolio_to_benchmark"
    /\ ValidRequest
    /\ request.benchmark_data = "empty"
    /\ response.kind = "return"
    /\ response.portfolio_performance.metrics["cagr"] = "value"
    /\ response.portfolio_performance.metrics["xirr"] = "null"
    /\ ReturnMetricsNull(response.benchmark_performance)

\* ============================================== the stored daily history
\* get_performance_history, generate_historical_performance_snapshots and
\* get_or_create_performance_snapshot over the portfolio_performance_history
\* table, with the ledger changing and the time passing between the calls.
\*
\* An instant is [tick, seq]: tick counts periods of HoursPerTick hours, seq
\* orders the instants of one tick (no two calls read the same instant); a
\* seq of 0 is the exact start of the tick.
MaxCacheDay == 2
MaxSeq == 4
MaxCacheTx == 2
MaxLookBack == 2

HoursPerTick == 6
CacheTicksPerDay == 24 \div HoursPerTick
portfolio_performance_freshness_hours == 6

Instant(tick, seq) == [tick |-> tick, seq |-> seq]
Before(a, b) == a.tick < b.tick \/ (a.tick = b.tick /\ a.seq < b.seq)
NotAfter(a, b) == a = b \/ Before(a, b)
\* datetime.date()
CacheDateOf(i) == i.tick \div CacheTicksPerDay
\* datetime.combine(d, datetime.min.time())
Midnight(day) == Instant(day * CacheTicksPerDay, 0)
\* i - timedelta(days=days)
DaysBefore(i, days) == Instant(i.tick - days * CacheTicksPerDay, i.seq)

\* _is_data_fresh: (now - last_update) < timedelta(hours=freshness_hours); two
\* instants of one tick are less than a tick apart, two instants of different
\* ticks at least a tick (seq grows with the time of day).
is_data_fresh(last_update, now, freshness_hours) ==
    (now.tick - last_update.tick) * HoursPerTick < freshness_hours

\* The close of every day of the series fetch_ticker_data returns.
HistoricalClose == CHOOSE p \in CurrentPrices : TRUE

\* The rows of the ledger carry their transaction_date as a tick (the exact
\* start of the tick).
TransactionInstant(tx) == Instant(tx.transaction_date, 0)

\* The result lists of a query ordered by transaction_date alone.
OrderedByDate(rows) ==
    {o \in Permutations_(rows) :
        \A i, j \in 1..Len(o) :
            i < j => o[i].transaction_date <= o[j].transaction_date}

\* A holding of the generator: quantity and cost basis, 0 and 0 when the asset
\* is not in current_holdings.
NoHolding == [quantity |-> 0, cost_basis |-> RInt(0)]

\* The BUY and SELL branches of the generator, on the holding of the asset.
ApplyToHolding(h, tx) ==
    IF tx.transaction_type = "BUY"
    THEN [quantity |-> h.quantity + tx.quantity,
          cost_basis |-> RAdd(h.cost_basis, RInt(tx.quantity * tx.price))]
    ELSE IF tx.transaction_type = "SELL" /\ h.quantity > 0
    THEN LET avg_cost == RDiv(h.cost_basis, RInt(h.quantity))
         IN  [quantity |-> h.quantity - tx.quantity,
              cost_basis |-> RSub(h.cost_basis, RMul(RInt(tx.quantity), avg_cost))]
    ELSE h

\* current_holdings after the rows of txs (a list) that satisfy the test on
\* their day, applied in the order of the list.
RECURSIVE ApplyRows(_, _, _, _)
ApplyRows(hs, txs, from_day, to_day) ==
    IF txs = <<>> THEN hs
    ELSE LET tx == Head(txs)
             day == tx.transaction_date \div CacheTicksPerDay
             next == IF from_day <= day /\ day <= to_day
                     THEN [hs EXCEPT ![tx.asset_id] = ApplyToHolding(@, tx)]
                     ELSE hs
         IN  ApplyRows(next, Tail(txs), from_day, to_day)

\* Step B of the main loop: holdings of quantity <= 0 are dropped.
DropEmpty(hs) ==
    [a \in Assets |-> IF hs[a].quantity <= 0 THEN NoHolding ELSE hs[a]]

\* The snapshot of one day from the holdings left after step B.
DaySnapshot(hs, day, created) ==
    [snapshot_date |-> Midnight(day),
     created_at |-> created,
     total_value |-> RInt(ISum([a \in Assets |-> hs[a].quantity])
                              * HistoricalClose),
     total_cost_basis |-> RSum([a \in Assets |-> hs[a].cost_basis])]

\* Steps 5 and 6 of the generator: the snapshots of the days from_day..end_day
\* from the holdings hs carried into from_day.
RECURSIVE MainLoop(_, _, _, _, _)
MainLoop(hs, txs, current_day, end_day, created) ==
    IF current_day > end_day THEN {}
    ELSE LET held == DropEmpty(ApplyRows(hs, txs, current_day, current_day))
         IN  {DaySnapshot(held, current_day, created)}
                 \cup MainLoop(held, txs, current_day + 1, end_day, created)

GenerateSnapshots(txs, effective_start_day, end_day, created) ==
    MainLoop(ApplyRows([a \in Assets |-> NoHolding], txs, 0,
                       effective_start_day - 1),
             txs, effective_start_day, end_day, created)
\* The row of the greatest (least) snapshot_date: order_by(...).first().
LatestSnapshot(table) ==
    CHOOSE r \in table : \A q \in table : NotAfter(q.snapshot_date, r.snapshot_date)
OldestSnapshot(table) ==
    CHOOSE r \in table : \A q \in table : NotAfter(r.snapshot_date, q.snapshot_date)

\* The created_at of the row created last, <<>> without rows.
LatestTransactionCreatedAt(rows, created) ==
    IF rows = {} THEN <<>>
    ELSE <<created[(CHOOSE t \in rows :
                      \A u \in rows : NotAfter(created[u.id], created[t.id])).id]>>

\* Step 2 of get_performance_history.
should_regenerate(table, rows, created, start, end) ==
    IF table = {} THEN TRUE
    ELSE IF CacheDateOf(start) < CacheDateOf(OldestSnapshot(table).snapshot_date)
    THEN TRUE
    ELSE IF CacheDateOf(LatestSnapshot(table).snapshot_date) < CacheDateOf(end)
    THEN TRUE
    ELSE LET latest_transaction == LatestTransactionCreatedAt(rows, created)
         IN  /\ latest_transaction # <<>>
             /\ Before(LatestSnapshot(table).created_at, latest_transaction[1])

FirstTransactionDay(rows) ==
    CHOOSE d \in {t.transaction_date \div CacheTicksPerDay : t \in rows} :
        \A t \in rows : d <= t.transaction_date \div CacheTicksPerDay

\* generate_historical_performance_snapshots up to its first await: what it
\* returns at once ("return"), or the rows it has deleted in its session, the
\* rows its query gave and the days it is about to compute ("await").
\* committed: the deletions are committed on the way out.
GeneratorPlan(table, rows, order, requested_start, requested_end) ==
    LET start == Midnight(CacheDateOf(requested_start))
        end == Midnight(CacheDateOf(requested_end))
        latest_snapshot_date ==
            Midnight(CacheDateOf(LatestSnapshot(table).snapshot_date))
        extend_forward == table # {} /\ Before(latest_snapshot_date, start)
        up_to_date ==
            extend_forward
                /\ Before(end, Midnight(CacheDateOf(latest_snapshot_date) + 1))
        case_3 == IF table # {} /\ ~extend_forward
                  THEN {r \in table : NotAfter(start, r.snapshot_date)}
                  ELSE {}
        step_1 == {r \in table : /\ NotAfter(start, r.snapshot_date)
                                 /\ NotAfter(r.snapshot_date, end)}
        selected == {t \in rows : NotAfter(TransactionInstant(t), end)}
        first_day == FirstTransactionDay(rows)
    IN  IF rows = {} \/ up_to_date
        THEN [kind |-> "return", deleted |-> {}, committed |-> FALSE]
        ELSE IF selected = {}
        THEN [kind |-> "return", deleted |-> case_3 \cup step_1,
              committed |-> TRUE]
        ELSE [kind |-> "await", deleted |-> case_3 \cup step_1,
              transactions |-> SelectSeq(order, LAMBDA t : t \in selected),
              effective_start_day |->
                  IF CacheDateOf(start) < first_day THEN first_day
                  ELSE CacheDateOf(start),
              end_day |-> CacheDateOf(end)]
\* --------------------------------------------------- the calls, over time
\* The asset of the rows of this specification, and the days they are dated.
CacheAsset == ReplayAsset
CacheDates == {day * CacheTicksPerDay : day \in 0..MaxCacheDay}
LastTick == (MaxCacheDay + 1) * CacheTicksPerDay - 1

\* The instant the next call reads from datetime.now.
Now == Instant(clock.tick, clock.seq + 1)

Ended(op, outcome) == [op |-> op, outcome |-> outcome, seq |-> last_op.seq + 1]

\* A portfolio whose first purchase, dated day 0, was added at the start of
\* day 0 and recalculated; no history is stored yet.
FirstPurchase == Transaction(1, CacheAsset, "BUY", 1, ReplayPrice, ReplayPrice, 0)

InitCache ==
    /\ ledger = {FirstPurchase}
    /\ \E row \in recalculate_asset_state({FirstPurchase}, NoRow, CacheAsset) :
          portfolio_assets = [a \in Assets |-> IF a = CacheAsset THEN row ELSE NoRow]
    /\ next_id = 2
    /\ prev_row = <<>>
    /\ ReplayIdle
    /\ HistoryIdle
    /\ PerfIdle
    /\ clock = Instant(0, 1)
    /\ created_at = (1 :> Instant(0, 1))
    /\ sessions = [p \in Requests |-> NoSession]
    /\ last_op = NoOperation

\* Time passes: from the first tick of a day to its second, or to the start
\* of the next day.
Tick ==
    /\ \E tick \in {clock.tick + 1,
                    (CacheDateOf(clock) + 1) * CacheTicksPerDay} :
          /\ tick <= LastTick
          /\ tick % CacheTicksPerDay <= 1
          /\ clock' = Instant(tick, clock.seq)
    /\ UNCHANGED <<ledger, portfolio_assets, next_id, replay_vars, hist_vars,
                   perf_vars, created_at, sessions, last_op>>

\* add_transaction.  The row is committed before recalculate_asset_state
\* runs; a request cancelled while the recalculation awaits the price leaves
\* the row without the recalculation.
AddTransactionNow ==
    /\ clock.seq < MaxSeq
    /\ next_id <= MaxCacheTx
    /\ \E type \in TxTypes, date \in CacheDates, outcome \in {"ok", "cancelled"} :
          LET tx == Transaction(next_id, CacheAsset, type, 1, ReplayPrice,
                                ReplayPrice, date)
          IN  /\ ledger' = ledger \cup {tx}
              /\ created_at' = (next_id :> Now) @@ created_at
              /\ next_id' = next_id + 1
              /\ IF outcome = "ok"
                 THEN \E row \in recalculate_asset_state(
                                     ledger', portfolio_assets[CacheAsset], CacheAsset) :
                         portfolio_assets' =
                             [portfolio_assets EXCEPT ![CacheAsset] = row]
                 ELSE UNCHANGED portfolio_assets
              /\ last_op' = Ended("add_transaction", outcome)
    /\ clock' = Now
    /\ UNCHANGED <<replay_vars, hist_vars, perf_vars, sessions>>

\* update_transaction of the date, the type or the price of a row; created_at
\* is not among the fields it sets.
UpdateTransactionNow ==
    /\ clock.seq < MaxSeq
    /\ \E transaction \in ledger, update_data \in TransactionUpdates :
          LET price == Updated(transaction, "price", update_data)
              tx == Transaction(transaction.id, transaction.asset_id,
                                Updated(transaction, "transaction_type", update_data),
                                transaction.quantity, price,
                                IF update_data.price # Unset
                                THEN transaction.quantity * price
                                ELSE transaction.total_amount,
                                IF update_data.transaction_date = Unset
                                THEN transaction.transaction_date
                                ELSE update_data.transaction_date[1]
                                         * CacheTicksPerDay)
          IN  /\ update_data.quantity = Unset /\ update_data.total_amount = Unset
              /\ tx # transaction
              /\ ledger' = (ledger \ {transaction}) \cup {tx}
              /\ \E row \in recalculate_asset_state(
                                ledger', portfolio_assets[transaction.asset_id],
                                transaction.asset_id) :
                    portfolio_assets' =
                        [portfolio_assets EXCEPT ![transaction.asset_id] = row]
    /\ clock' = Now
    /\ last_op' = Ended("update_transaction", "ok")
    /\ UNCHANGED <<next_id, replay_vars, hist_vars, perf_vars, created_at, sessions>>

\* delete_transaction.
DeleteTransactionNow ==
    /\ clock.seq < MaxSeq
    /\ \E transaction \in ledger :
          /\ ledger' = ledger \ {transaction}
          /\ created_at' = [id \in DOMAIN created_at \ {transaction.id} |->
                               created_at[id]]
          /\ \E row \in recalculate_asset_state(
                            ledger', portfolio_assets[transaction.asset_id],
                            transaction.asset_id) :
                portfolio_assets' =
                    [portfolio_assets EXCEPT ![transaction.asset_id] = row]
    /\ clock' = Now
    /\ last_op' = Ended("delete_transaction", "ok")
    /\ UNCHANGED <<next_id, replay_vars, hist_vars, perf_vars, sessions>>

\* create_bulk_transactions of one BUY or SELL item: the row is flushed, the
\* call of the missing method fails, the error is listed in the summary and
\* the commit after the loop stores the row.
CreateBulkTransactionsNow ==
    /\ clock.seq < MaxSeq
    /\ next_id <= MaxCacheTx
    /\ \E type \in TxTypes, date \in CacheDates :
          /\ ledger' = ledger \cup BulkRows(
                 <<[asset_id |-> CacheAsset, transaction_type |-> type,
                    quantity |-> 1, price |-> ReplayPrice,
                    total_amount |-> ReplayPrice, transaction_date |-> date]>>,
                 next_id)
          /\ created_at' = (next_id :> Now) @@ created_at
          /\ next_id' = next_id + 1
    /\ clock' = Now
    /\ last_op' = Ended("create_bulk_transactions", "failed")
    /\ UNCHANGED <<portfolio_assets, replay_vars, hist_vars, perf_vars, sessions>>
\* Step 4 of get_performance_history: the rows it returns.
FinalHistory(table, start) == {r \in table : NotAfter(start, r.snapshot_date)}

Returned(start, end, rows, regenerated) ==
    [kind |-> "return", op |-> "get_performance_history", start_date |-> start,
     end_date |-> end, history |-> rows, regenerated |-> regenerated]

\* The rows other sessions have deleted and not yet committed: a DELETE of
\* one of them waits for that session to end.
DeletedElsewhere(p) ==
    UNION {sessions[q].deleted : q \in {r \in Requests \ {p} : sessions[r].pc = "await"}}

\* get_performance_history from its start to the await of the generator
\* (fetch_ticker_data, which suspends in asyncio.sleep when an attempt fails
\* and is retried; workers in other processes run meanwhile in any case), or
\* to its return when it does not get there.  Nothing keeps a second request
\* from starting while the first is suspended.
GetPerformanceHistory(p) ==
    /\ sessions[p].pc = "idle"
    /\ clock.seq < MaxSeq
    /\ \E days \in 1..MaxLookBack, order \in OrderedByDate(ledger) :
          LET end == Now
              start == DaysBefore(end, days)
              regenerate == should_regenerate(performance_history, ledger,
                                              created_at, start, end)
              plan == GeneratorPlan(performance_history, ledger, order, start, end)
          IN  IF ~regenerate
              THEN /\ response' =
                         Returned(start, end,
                                  FinalHistory(performance_history, start), FALSE)
                   /\ last_op' = Ended("get_performance_history", "ok")
                   /\ UNCHANGED <<performance_history, sessions>>
              ELSE /\ plan.deleted \cap DeletedElsewhere(p) = {}
                   /\ IF plan.kind = "return"
                      THEN /\ performance_history' =
                                 IF plan.committed
                                 THEN performance_history \ plan.deleted
                                 ELSE performance_history
                           /\ response' =
                                 Returned(start, end,
                                          FinalHistory(performance_history', start),
                                          TRUE)
                           /\ last_op' = Ended("get_performance_history", "ok")
                           /\ UNCHANGED sessions
                      ELSE /\ sessions' = [sessions EXCEPT ![p] =
                                 [pc |-> "await", start_date |-> start,
                                  end_date |-> end, deleted |-> plan.deleted,
                                  transactions |-> plan.transactions,
                                  effective_start_day |-> plan.effective_start_day,
                                  end_day |-> plan.end_day]]
                           /\ UNCHANGED <<performance_history, last_op, response>>
    /\ clock' = Now
    /\ request' = [op |-> "get_performance_history"]
    /\ UNCHANGED <<ledger, portfolio_assets, next_id, replay_vars, hist_vars,
                   created_at>>

\* The generator from the return of fetch_ticker_data to the commit, and the
\* final query of get_performance_history.  created_at is the server's now():
\* the start of the session's transaction.  A snapshot_date that another
\* session has committed meanwhile violates uq_portfolio_performance_date:
\* the generator rolls back and the request fails.
GenerateAndReturn(p) ==
    /\ sessions[p].pc = "await"
    /\ LET s == sessions[p]
           new == GenerateSnapshots(s.transactions, s.effective_start_day,
                                    s.end_day, s.end_date)
           kept == performance_history \ s.deleted
           conflict == \E r \in new, q \in kept : q.snapshot_date = r.snapshot_date
       IN  IF conflict
           THEN /\ response' = Raise("HTTPException")
                /\ last_op' = Ended("get_performance_history", "failed")
                /\ UNCHANGED performance_history
           ELSE /\ performance_history' = kept \cup new
                /\ response' =
                       Returned(s.start_date, s.end_date,
                                FinalHistory(performance_history', s.start_date),
                                TRUE)
                /\ last_op' = Ended("get_performance_history", "ok")
    /\ sessions' = [sessions EXCEPT ![p] = NoSession]
    /\ UNCHANGED <<ledger, portfolio_assets, next_id, replay_vars, hist_vars,
                   request, clock, created_at>>

\* The request is cancelled, or the generator raises, during the await: the
\* session is rolled back.
GenerateFails(p) ==
    /\ sessions[p].pc = "await"
    /\ sessions' = [sessions EXCEPT ![p] = NoSession]
    /\ response' = Raise("HTTPException")
    /\ last_op' = Ended("get_performance_history", "failed")
    /\ UNCHANGED <<ledger, portfolio_assets, next_id, replay_vars, hist_vars,
                   request, performance_history, clock, created_at>>

\* get_or_create_performance_snapshot.
GetOrCreatePerformanceSnapshot ==
    /\ clock.seq < MaxSeq
    /\ \E force_refresh \in BOOLEAN, prices \in SnapshotPrices :
          LET existing_snapshot == LatestSnapshot(performance_history)
              created == create_performance_snapshot(portfolio_assets, Now, prices)
          IN  /\ request' = [op |-> "get_or_create_performance_snapshot"]
              /\ IF /\ ~force_refresh
                    /\ performance_history # {}
                    /\ is_data_fresh(existing_snapshot.created_at, Now,
                                     portfolio_performance_freshness_hours)
                 THEN /\ response' =
                            [kind |-> "return",
                             snapshot_date |-> existing_snapshot.snapshot_date,
                             total_value |-> existing_snapshot.total_value,
                             total_cost_basis |-> existing_snapshot.total_cost_basis,
                             created_at |-> existing_snapshot.created_at]
                      /\ last_op' = Ended("get_or_create_performance_snapshot", "ok")
                      /\ UNCHANGED performance_history
                 ELSE IF created.kind = "return"
                 THEN /\ response' =
                            [kind |-> "return",
                             snapshot_date |-> Now,
                             total_value |-> created.total_value,
                             total_cost_basis |-> created.total_cost_basis,
                             created_at |-> Now]
                      /\ performance_history' = performance_history \cup
                            {[snapshot_date |-> Now, created_at |-> Now,
                              total_value |-> created.total_value,
                              total_cost_basis |-> created.total_cost_basis]}
                      /\ last_op' = Ended("get_or_create_performance_snapshot", "ok")
                 ELSE /\ response' = created
                      /\ last_op' = Ended("get_or_create_performance_snapshot",
                                          "failed")
                      /\ UNCHANGED performance_history
    /\ clock' = Now
    /\ UNCHANGED <<ledger, portfolio_assets, next_id, replay_vars, hist_vars,
                   created_at, sessions>>

\* One request for the history at a time.
FirstRequest == CHOOSE p \in Requests : \A q \in Requests : p <= q

NextCache ==
    \/ Tick
    \/ AddTransactionNow
    \/ UpdateTransactionNow
    \/ DeleteTransactionNow
    \/ CreateBulkTransactionsNow
    \/ GetPerformanceHistory(FirstRequest)
    \/ GenerateAndReturn(FirstRequest)
    \/ GenerateFails(FirstRequest)
    \/ GetOrCreatePerformanceSnapshot

SpecCache == InitCache /\ [][NextCache]_vars

\* Two requests for the history of one portfolio, served concurrently, while
\* the days pass and transactions are deleted.
NextRegeneration ==
    \/ Tick
    \/ DeleteTransactionNow
    \/ \E p \in Requests : GetPerformanceHistory(p)
    \/ \E p \in Requests : GenerateAndReturn(p)
    \/ \E p \in Requests : GenerateFails(p)

SpecRegeneration == InitCache /\ [][NextRegeneration]_vars

\* ------------------------------------- claims about the stored history
\* This step ends the operation op with the outcome given.
Ends(op, outcome) ==
    last_op' # last_op /\ last_op'.op = op /\ last_op'.outcome = outcome

\* The snapshots a regeneration from the first transaction to today stores
\* now, for one result list of its query.
FreshSnapshots(order) ==
    IF order = <<>> THEN {}
    ELSE LET today == CacheDateOf(clock')
             selected == SelectSeq(order,
                             LAMBDA t : NotAfter(TransactionInstant(t), Midnight(today)))
         IN  GenerateSnapshots(selected, FirstTransactionDay(ledger'), today, clock')

SameValues(r, f) ==
    /\ r.snapshot_date = f.snapshot_date
    /\ r.total_value = f.total_value
    /\ r.total_cost_basis = f.total_cost_basis

StoredCostBasis(stored) ==
    RSum([a \in Assets |->
            IF stored[a].present THEN stored[a].cost_basis_total ELSE RInt(0)])

\* C11: what a read serves from the store is current: the daily snapshots
\* that get_performance_history returns without a regeneration are the ones a
\* recomputation from the ledger gives, and the snapshot that
\* get_or_create_performance_snapshot returns carries the cost basis of the
\* positions as they are stored now, whatever additions, edits and deletions
\* came before the read.
C11_ServedIsCurrent ==
    [][/\ (Ends("get_performance_history", "ok") /\ UNCHANGED sessions) =>
            \E order \in OrderedByDate(ledger') :
                \A r \in response'.history :
                    r.snapshot_date.seq = 0 =>
                        \E f \in FreshSnapshots(order) : SameValues(r, f)
       /\ Ends("get_or_create_performance_snapshot", "ok") =>
            response'.total_cost_basis = StoredCostBasis(portfolio_assets')]_vars

\* C12: no two requests are between the deletion and the re-insertion of the
\* snapshots of one (portfolio, day) at the same time.
C12_OneRegenerationInFlight ==
    \A p, q \in Requests :
        (p # q /\ sessions[p].pc = "await" /\ sessions[q].pc = "await") =>
            (sessions[p].effective_start_day..sessions[p].end_day)
                \cap (sessions[q].effective_start_day..sessions[q].end_day) = {}

\* C13: the history returned for a range has exactly one snapshot for every
\* calendar day from the later of the day the range starts and the day of the
\* first transaction to the current day, and no other.
C13_GapFreeHistory ==
    [][(Ends("get_performance_history", "ok") /\ ledger' # {}) =>
          LET first_day == FirstTransactionDay(ledger')
              start_day == CacheDateOf(response'.start_date)
              from_day == IF start_day < first_day THEN first_day ELSE start_day
              days == from_day..CacheDateOf(response'.end_date)
          IN  /\ \A r \in response'.history : CacheDateOf(r.snapshot_date) \in days
              /\ \A d \in days :
                    Cardinality({r \in response'.history :
                                    CacheDateOf(r.snapshot_date) = d}) = 1]_vars

\* C14: an operation that fails or is cancelled part-way leaves the ledger,
\* the stored positions and the stored history as they were.
C14_NoPartialResults ==
    [][(last_op' # last_op /\ last_op'.outcome # "ok") =>
          /\ ledger' = ledger
          /\ portfolio_assets' = portfolio_assets
          /\ performance_history' = performance_history]_vars

\* ------------------------------------------------- the metrics, as numbers
\* calculate_portfolio_performance and calculate_benchmark_performance with the
\* numbers their helpers compute.  Timestamps are ticks as above; every price
\* series holds one close for all dates; every period is shorter than a year,
\* where the CAGR is the total return.
MaxMetricTx == 2

MetricDates == {0, OneDay, 2 * OneDay}
\* End dates: a day start on which rows can lie, and a later time of day.
MetricEnds == {OneDay, 2 * OneDay, 2 * OneDay + 1}
MetricPeriods == {"inception", "ytd", "3m"}
\* What pyxirr.xirr does with the flows it is handed: a rate, None when it
\* does not converge, or an exception.
SolverOutcomes == {"rate", "none", "exception"}
\* The close of the benchmark's price series (<<>>: an empty frame).
BenchmarkCloses == {<<>>, <<2>>} \cup {<<p>> : p \in CurrentPrices}

\* Execution prices: below the close of the series, and at it.
MetricPrices == Prices \cup CurrentPrices

MetricShapes ==
    [transaction_type : TxTypes, price : MetricPrices,
     transaction_date : MetricDates]

MetricShapeLeq(a, b) ==
    \/ a.transaction_date < b.transaction_date
    \/ /\ a.transaction_date = b.transaction_date
       /\ \/ a.transaction_type = b.transaction_type /\ a.price <= b.price
          \/ a.transaction_type = "BUY" /\ b.transaction_type = "SELL"

MetricLedgers(max) ==
    UNION {
        { {Transaction(i, CacheAsset, f[i].transaction_type, 1, f[i].price,
                       f[i].price, f[i].transaction_date) : i \in 1..n}
          : f \in {g \in [1..n -> MetricShapes] :
                      \A i \in 1..(n - 1) : MetricShapeLeq(g[i], g[i + 1])} }
        : n \in 0..max }

Rows(order) == {order[i] : i \in 1..Len(order)}

Percent(x) == RMul(x, RInt(100))

\* (a - b).days of two timestamps
DaysBetween(a, b) == (a - b) \div TicksPerDay

\* _get_portfolio_value_at_date: 0.0 for None; otherwise the quantity held
\* above 1e-9 after the rows with transaction_date <= target_date, times the
\* close of the asset's series; an asset without a close adds nothing.
get_portfolio_value_at_date(order, target, prices) ==
    IF target = NoValue THEN RInt(0)
    ELSE LET held == get_holdings_at_date(Rows(order), target[1])
         IN  RSum([a \in Assets |->
                      IF held[a] > 0 /\ prices[a] # <<>>
                      THEN RInt(held[a] * prices[a][1]) ELSE RInt(0)])

\* The return of a span of `days` days: 0.0 for no days, the total return up
\* to a year, annualised beyond it.
ReturnOver(total_return, days) ==
    IF days <= 0 THEN <<RInt(0)>>
    ELSE IF 4 * days > 1461
    THEN <<[annualised |-> Percent(total_return), days |-> days]>>
    ELSE <<Percent(total_return)>>

\* _calculate_cagr
calculate_cagr(order, current_value, start, end, prices) ==
    LET beginning_value == get_portfolio_value_at_date(order, start, prices)
        first_transaction_date == FirstDate(Rows(order))
        days == IF start # NoValue THEN DaysBetween(end, start[1])
                ELSE DaysBetween(end, first_transaction_date)
    IN  IF ~RPos(beginning_value) THEN NoValue
        ELSE IF RLess(current_value, RInt(0)) THEN <<RInt(-100)>>
        ELSE ReturnOver(RSub(RDiv(current_value, beginning_value), RInt(1)), days)

\* create_cash_flows_from_transactions, in the order of the rows
CashFlowList(order) ==
    [i \in 1..Len(order) |->
        [id |-> order[i].id, date |-> order[i].transaction_date,
         amount |-> IF order[i].transaction_type = "BUY"
                    THEN 0 - order[i].total_amount ELSE order[i].total_amount]]

RMax0(x) == IF RPos(x) THEN x ELSE RInt(0)

\* _calculate_benchmark_value: the shares bought and sold flow by flow, never
\* below zero, times the close; close is <<c>> here (the empty frame raises
\* before any helper is called).
RECURSIVE BenchmarkShares(_, _, _, _)
BenchmarkShares(cash_flows, close, as_of_date, total_shares) ==
    IF cash_flows = <<>> THEN total_shares
    ELSE LET cf == Head(cash_flows)
             shares == Rat(Abs(cf.amount), close[1])
             next == IF cf.date > as_of_date THEN total_shares
                     ELSE IF cf.amount < 0 THEN RAdd(total_shares, shares)
                     ELSE RMax0(RSub(total_shares, shares))
         IN  BenchmarkShares(Tail(cash_flows), close, as_of_date, next)

calculate_benchmark_value(cash_flows, close, as_of_date) ==
    RMul(BenchmarkShares(cash_flows, close, as_of_date, RInt(0)), RInt(close[1]))

\* The flow with the least date, the first of them in the list.
FirstInvestment(cash_flows) ==
    cash_flows[CHOOSE i \in 1..Len(cash_flows) :
                  \A j \in 1..Len(cash_flows) :
                      \/ cash_flows[i].date < cash_flows[j].date
                      \/ cash_flows[i].date = cash_flows[j].date /\ i <= j]

\* The benchmark's value at the start of the period, 0.0 for inception.
BenchmarkBeginningValue(cash_flows, close, start) ==
    IF start = NoValue THEN RInt(0)
    ELSE calculate_benchmark_value(
             SelectSeq(cash_flows, LAMBDA cf : cf.date < start[1]), close, start[1])

\* _calculate_benchmark_cagr: a beginning value <= 0 is replaced by the
\* amount of the first investment, and the span then starts at its date.
calculate_benchmark_cagr(cash_flows, close, current_value, start, end) ==
    LET first_value == BenchmarkBeginningValue(cash_flows, close, start)
        first_investment == FirstInvestment(cash_flows)
        fallback == ~RPos(first_value)
        beginning_value == IF fallback THEN RInt(Abs(first_investment.amount))
                           ELSE first_value
        days == IF fallback \/ start = NoValue
                THEN DaysBetween(end, first_investment.date)
                ELSE DaysBetween(end, start[1])
    IN  IF ~RPos(beginning_value) \/ days <= 0 THEN NoValue
        ELSE IF 4 * days > 1461
        THEN <<[annualised |->
                   Percent(RSub(RDiv(current_value, beginning_value), RInt(1))),
                days |-> days]>>
        ELSE <<Percent(RSub(RDiv(current_value, beginning_value), RInt(1)))>>

\* has_positive and has_negative
MixedFlows(flows) ==
    /\ \E i \in 1..Len(flows) : RPos(flows[i].amount)
    /\ \E i \in 1..Len(flows) : RLess(flows[i].amount, RInt(0))

\* The end of _calculate_xirr and of _calculate_benchmark_xirr: fewer than two
\* flows or flows of one sign give None before the solver is called; the
\* solver's None gives None; `except Exception: return None`.
xirr_result_unvalidated(flows, solver) ==
    IF Len(flows) < 2 THEN "null"
    ELSE IF solver = "rate" THEN "rate" ELSE "null"

xirr_result(flows, solver) ==
    IF Len(flows) < 2 THEN "null"
    ELSE IF ~MixedFlows(flows) THEN "null"
    ELSE IF solver = "rate" THEN "rate" ELSE "null"

TransactionFlow(t) ==
    [source |-> "transaction", id |-> t.id, date |-> t.transaction_date,
     amount |-> IF t.transaction_type = "BUY" THEN RInt(0 - t.total_amount)
                ELSE RInt(t.total_amount)]

\* _calculate_xirr: the dates and amounts it assembles.  For a bounded period
\* the value at start_date (the rows with transaction_date <= start_date) goes
\* first when it is positive, then the rows with transaction_date >=
\* start_date; for inception all rows; last the current value at end_date.
xirr_flows(order, current_value, start, end, prices) ==
    LET initial_value == get_portfolio_value_at_date(order, start, prices)
        opening ==
            IF start # NoValue /\ RPos(initial_value)
            THEN <<[source |-> "opening", id |-> 0, date |-> start[1],
                    amount |-> RSub(RInt(0), initial_value)]>>
            ELSE <<>>
        period_transactions ==
            IF start # NoValue
            THEN SelectSeq(order, LAMBDA t : t.transaction_date >= start[1])
            ELSE order
    IN  opening
          \o [i \in 1..Len(period_transactions) |->
                 TransactionFlow(period_transactions[i])]
          \o <<[source |-> "terminal", id |-> 0, date |-> end,
                amount |-> current_value]>>

calculate_xirr(order, current_value, start, end, prices, solver) ==
    xirr_result(xirr_flows(order, current_value, start, end, prices), solver)

\* _calculate_benchmark_xirr: the flows it is given, then the current value.
benchmark_xirr_flows(cash_flows, current_value, end) ==
    [i \in 1..Len(cash_flows) |->
        [source |-> "transaction", id |-> cash_flows[i].id,
         date |-> cash_flows[i].date, amount |-> RInt(cash_flows[i].amount)]]
      \o <<[source |-> "terminal", id |-> 0, date |-> end,
            amount |-> current_value]>>

calculate_benchmark_xirr(cash_flows, current_value, end, solver) ==
    xirr_result(benchmark_xirr_flows(cash_flows, current_value, end), solver)

\* _get_cash_flow_dates: the dates of the rows after start_date (of all rows
\* for inception) and before end_date.
get_cash_flow_dates(order, start, end) ==
    {t.transaction_date : t \in
        {u \in Rows(order) : /\ start # NoValue => u.transaction_date > start[1]
                             /\ u.transaction_date < end}}

RECURSIVE SortedDates(_)
SortedDates(S) ==
    IF S = {} THEN <<>>
    ELSE LET d == CHOOSE x \in S : \A y \in S : x <= y
         IN  <<d>> \o SortedDates(S \ {d})

\* sum of total_amount of the rows of one type
RECURSIVE TotalAmount(_, _)
TotalAmount(S, type) ==
    IF S = {} THEN 0
    ELSE LET t == CHOOSE x \in S : TRUE
         IN  (IF t.transaction_type = type THEN t.total_amount ELSE 0)
                + TotalAmount(S \ {t}, type)

\* _calculate_inception_twr
calculate_inception_twr(order, current_value) ==
    LET initial_investment ==
            TotalAmount(Rows(order), "BUY") - TotalAmount(Rows(order), "SELL")
    IN  IF order = <<>> \/ initial_investment <= 0 THEN NoValue
        ELSE <<Percent(RSub(RDiv(current_value, RInt(initial_investment)),
                            RInt(1)))>>

\* _create_sub_periods
create_sub_periods(start, end, cash_flow_dates) ==
    LET actual_start == IF start # NoValue THEN start[1]
                        ELSE CHOOSE d \in cash_flow_dates :
                                \A e \in cash_flow_dates : d <= e
        period_dates == SortedDates({actual_start, end} \cup cash_flow_dates)
    IN  [i \in 1..(Len(period_dates) - 1) |->
            [period_start |-> period_dates[i], period_end |-> period_dates[i + 1]]]

\* _get_cash_flows_at_date: the rows of the calendar day of target_date.
get_cash_flows_at_date(order, target_date) ==
    LET rows == {t \in Rows(order) :
                    DateOf(t.transaction_date) = DateOf(target_date)}
    IN  TotalAmount(rows, "BUY") - TotalAmount(rows, "SELL")

\* _calculate_sub_period_return
calculate_sub_period_return(order, period_start, period_end, prices) ==
    LET start_value_before_cf ==
            get_portfolio_value_at_date(order, <<period_start>>, prices)
        end_value == get_portfolio_value_at_date(order, <<period_end>>, prices)
        cash_flows_at_start == get_cash_flows_at_date(order, period_start)
        start_value == RAdd(start_value_before_cf, RInt(cash_flows_at_start))
    IN  IF ~RPos(start_value)
        THEN IF cash_flows_at_start > 0 THEN <<RInt(0)>> ELSE NoValue
        ELSE <<RSub(RDiv(end_value, start_value), RInt(1))>>

\* _link_sub_period_returns
RECURSIVE LinkedGrowth(_)
LinkedGrowth(sub_period_returns) ==
    IF sub_period_returns = <<>> THEN RInt(1)
    ELSE RMul(RAdd(RInt(1), Head(sub_period_returns)),
              LinkedGrowth(Tail(sub_period_returns)))

link_sub_period_returns(sub_period_returns) ==
    RSub(LinkedGrowth(sub_period_returns), RInt(1))

\* _calculate_twr_with_cash_flows: a sub-period without a return is skipped.
calculate_twr_with_cash_flows(order, start, end, cash_flow_dates, prices) ==
    LET sub_periods == create_sub_periods(start, end, cash_flow_dates)
        sub_returns ==
            [i \in 1..Len(sub_periods) |->
                calculate_sub_period_return(order, sub_periods[i].period_start,
                                            sub_periods[i].period_end, prices)]
        kept == SelectSeq(sub_returns, LAMBDA r : r # NoValue)
        sub_period_returns == [i \in 1..Len(kept) |-> kept[i][1]]
    IN  IF sub_periods = <<>> \/ sub_period_returns = <<>> THEN NoValue
        ELSE <<Percent(link_sub_period_returns(sub_period_returns))>>

\* _calculate_twr
calculate_twr(order, current_value, start, end, prices) ==
    LET cash_flow_dates == get_cash_flow_dates(order, start, end)
        initial_value == get_portfolio_value_at_date(order, start, prices)
    IN  IF cash_flow_dates = {}
        THEN IF start # NoValue
             THEN IF ~RPos(initial_value) THEN NoValue
                  ELSE <<Percent(RSub(RDiv(current_value, initial_value),
                                      RInt(1)))>>
             ELSE calculate_inception_twr(order, current_value)
        ELSE calculate_twr_with_cash_flows(order, start, end, cash_flow_dates,
                                           prices)

\* _create_benchmark_sub_periods
create_benchmark_sub_periods(actual_start, end, cash_flow_dates) ==
    LET period_dates == SortedDates({actual_start, end} \cup cash_flow_dates)
    IN  [i \in 1..(Len(period_dates) - 1) |->
            [period_start |-> period_dates[i], period_end |-> period_dates[i + 1]]]

\* The net cash flow of _calculate_benchmark_sub_period_return: the flows with
\* period_start < date <= period_end, a purchase counted positive.
RECURSIVE BenchmarkNetCashFlow(_, _, _)
BenchmarkNetCashFlow(cash_flows, period_start, period_end) ==
    IF cash_flows = <<>> THEN RInt(0)
    ELSE LET cf == Head(cash_flows)
         IN  RAdd(IF period_start < cf.date /\ cf.date <= period_end
                  THEN RInt(0 - cf.amount) ELSE RInt(0),
                  BenchmarkNetCashFlow(Tail(cash_flows), period_start, period_end))

\* _calculate_benchmark_sub_period_return, on a series with one close.
calculate_benchmark_sub_period_return(cash_flows, close, period_start, period_end, cumulative_shares_at_start) ==
    LET start_value == RMul(cumulative_shares_at_start, RInt(close[1]))
        end_value == RMul(cumulative_shares_at_start, RInt(close[1]))
        net_cash_flow == BenchmarkNetCashFlow(cash_flows, period_start, period_end)
    IN  IF ~RPos(start_value)
        THEN IF RPos(net_cash_flow) THEN <<RInt(0)>> ELSE NoValue
        ELSE <<RSub(RDiv(RSub(end_value, net_cash_flow), start_value), RInt(1))>>

\* The shares the loop of _calculate_benchmark_twr adds after a sub-period:
\* those of the outflows with period_start < date <= period_end.
RECURSIVE SharesBoughtIn(_, _, _, _)
SharesBoughtIn(cash_flows, close, period_start, period_end) ==
    IF cash_flows = <<>> THEN RInt(0)
    ELSE LET cf == Head(cash_flows)
         IN  RAdd(IF /\ period_start < cf.date /\ cf.date <= period_end
                     /\ cf.amount < 0
                  THEN Rat(Abs(cf.amount), close[1]) ELSE RInt(0),
                  SharesBoughtIn(Tail(cash_flows), close, period_start, period_end))

\* The loop of _calculate_benchmark_twr: per sub-period its return (<<>> for
\* None) and the cumulative shares it started with.
RECURSIVE BenchmarkSubPeriodLoop(_, _, _, _)
BenchmarkSubPeriodLoop(cash_flows, close, sub_periods, cumulative_shares) ==
    IF sub_periods = <<>> THEN <<>>
    ELSE LET sp == Head(sub_periods)
         IN  <<[period_start |-> sp.period_start, period_end |-> sp.period_end,
                cumulative_shares |-> cumulative_shares,
                sub_return |-> calculate_benchmark_sub_period_return(
                                   cash_flows, close, sp.period_start,
                                   sp.period_end, cumulative_shares)]>>
               \o BenchmarkSubPeriodLoop(
                      cash_flows, close, Tail(sub_periods),
                      RAdd(cumulative_shares,
                           SharesBoughtIn(cash_flows, close, sp.period_start,
                                          sp.period_end)))

BenchmarkFlowDates(cash_flows) ==
    {cash_flows[i].date : i \in {j \in 1..Len(cash_flows) : cash_flows[j].amount # 0}}

\* The sub-periods of _calculate_benchmark_twr with what the loop made of them.
benchmark_sub_periods(cash_flows, close, start, end) ==
    LET cash_flow_dates == BenchmarkFlowDates(cash_flows)
        actual_start == IF start # NoValue THEN start[1]
                        ELSE CHOOSE d \in cash_flow_dates :
                                \A e \in cash_flow_dates : d <= e
    IN  IF close = <<>> \/ cash_flow_dates = {} THEN <<>>
        ELSE BenchmarkSubPeriodLoop(
                 cash_flows, close,
                 create_benchmark_sub_periods(actual_start, end, cash_flow_dates),
                 RInt(0))

\* _calculate_benchmark_twr
calculate_benchmark_twr(cash_flows, close, start, end) ==
    LET walked == benchmark_sub_periods(cash_flows, close, start, end)
        kept == SelectSeq(walked, LAMBDA w : w.sub_return # NoValue)
        sub_period_returns == [i \in 1..Len(kept) |-> kept[i].sub_return[1]]
    IN  IF sub_period_returns = <<>> THEN NoValue
        ELSE <<Percent(link_sub_period_returns(sub_period_returns))>>


\* calculate_portfolio_performance with the numbers of its return metrics
\* (volatility and max_drawdown are read from the history, as above).  order
\* is the list _get_transactions returned for end.
portfolio_performance_values(order, stored, period, end, prices, solver) ==
    LET start == get_start_date(period, end).value
        first_transaction_date == FirstDate(Rows(order))
        younger == start # NoValue /\ first_transaction_date > start[1]
        actual_period == IF younger THEN "inception" ELSE period
        actual_start_date == IF younger THEN NoValue ELSE start
        period_adjustment_info ==
            IF younger
            THEN <<[requested_period |-> period,
                    requested_period_days |-> DaysBetween(end, start[1]),
                    portfolio_age_days |->
                        DaysBetween(end, first_transaction_date)]>>
            ELSE <<>>
        current == get_current_portfolio_value(stored)
        current_value == current.total_value
        xirr_value == calculate_xirr(order, current_value, actual_start_date,
                                     end, prices, solver)
    IN  IF order = <<>>
        THEN [kind |-> "return", period |-> period, start_date |-> NoValue,
              current_value |-> RInt(0),
              errors |-> {[kind |-> "no_transactions", asset_id |-> 0]},
              period_adjustment |-> <<>>,
              metrics |-> [cagr |-> NoValue, xirr |-> "null", twr |-> NoValue,
                           mwr |-> "null"]]
        ELSE IF current.errors # {}
        THEN [kind |-> "return", period |-> actual_period,
              start_date |-> actual_start_date,
              current_value |-> current_value,
              errors |-> current.errors,
              period_adjustment |-> period_adjustment_info,
              metrics |-> [cagr |-> NoValue, xirr |-> "null", twr |-> NoValue,
                           mwr |-> "null"]]
        ELSE [kind |-> "return", period |-> actual_period,
              start_date |-> actual_start_date,
              current_value |-> current_value,
              errors |-> {},
              period_adjustment |-> period_adjustment_info,
              metrics |->
                 [cagr |-> calculate_cagr(order, current_value,
                                          actual_start_date, end, prices),
                  xirr |-> xirr_value,
                  twr |-> calculate_twr(order, current_value,
                                        actual_start_date, end, prices),
                  mwr |-> xirr_value]]

\* _empty_benchmark_performance_result
empty_benchmark_values(period) ==
    [kind |-> "return", period |-> period, start_date |-> NoValue,
     current_value |-> RInt(0), empty |-> TRUE,
     metrics |-> [cagr |-> NoValue, xirr |-> "null", twr |-> NoValue,
                  mwr |-> "null"]]

\* calculate_benchmark_performance with the numbers of its CAGR and TWR and
\* the flows of its XIRR.
benchmark_performance_values(cash_flows, period, end, close, solver) ==
    LET start == get_start_date(period, end).value
        period_cash_flows ==
            IF start # NoValue
            THEN SelectSeq(cash_flows, LAMBDA cf : cf.date >= start[1])
            ELSE cash_flows
        current_value == calculate_benchmark_value(cash_flows, close, end)
        xirr_value == calculate_benchmark_xirr(period_cash_flows, current_value,
                                               end, solver)
    IN  IF period_cash_flows = <<>> THEN empty_benchmark_values(period)
        ELSE IF close = <<>> THEN empty_benchmark_values(period)
        ELSE [kind |-> "return", period |-> period, start_date |-> start,
              current_value |-> current_value, empty |-> FALSE,
              metrics |->
                 [cagr |-> calculate_benchmark_cagr(cash_flows, close,
                                                    current_value, start, end),
                  xirr |-> xirr_value,
                  twr |-> calculate_benchmark_twr(period_cash_flows, close,
                                                  start, end),
                  mwr |-> xirr_value]]

InitMetrics ==
    /\ ledger \in MetricLedgers(MaxMetricTx)
    /\ portfolio_assets \in
          {f \in [Assets -> UNION {recalculate_asset_state(ledger, NoRow, a)
                                      : a \in Assets}] :
              \A a \in Assets : f[a] \in recalculate_asset_state(ledger, NoRow, a)}
    /\ next_id = Cardinality(ledger) + 1
    /\ prev_row = <<>>
    /\ ReplayIdle
    /\ price_data \in {f \in [Assets -> {<<>>} \cup {<<p>> : p \in CurrentPrices}] :
                          \A a \in Assets \ {CacheAsset} : f[a] = <<>>}
    /\ start_date = <<>> /\ end_date = 0
    /\ all_transactions = {}
    /\ holdings = [a \in Assets |-> 0]
    /\ date_range = <<>> /\ history = <<>>
    /\ hpc = "idle"
    /\ price_cache = {} /\ fetches = [a \in Assets |-> 0]
    /\ PerfIdle
    /\ CacheIdle

PortfolioMetrics ==
    /\ response = NoResponse
    /\ \E period \in MetricPeriods, end \in MetricEnds, solver \in SolverOutcomes :
       \E order \in OrderedByDate(get_transactions(ledger, end)) :
          /\ request' = [op |-> "calculate_portfolio_performance",
                         period |-> period, end_date |-> end,
                         order |-> order, solver |-> solver]
          /\ response' = portfolio_performance_values(
                             order, portfolio_assets, period, end, price_data,
                             solver)
    /\ UNCHANGED <<cache_vars, ledger, portfolio_assets, next_id, replay_vars,
                   hist_vars, performance_history>>

BenchmarkMetrics ==
    /\ response = NoResponse
    /\ \E period \in MetricPeriods, end \in MetricEnds, solver \in SolverOutcomes,
          close \in BenchmarkCloses :
       \E order \in OrderedByDate(get_transactions(ledger, end)) :
          /\ request' = [op |-> "calculate_benchmark_performance",
                         period |-> period, end_date |-> end,
                         order |-> order, solver |-> solver, close |-> close]
          /\ response' = benchmark_performance_values(
                             CashFlowList(order), period, end, close, solver)
    /\ UNCHANGED <<cache_vars, ledger, portfolio_assets, next_id, replay_vars,
                   hist_vars, performance_history>>

safe_subtract_none_as_zero(a, b) ==
    <<RSub(IF a # NoValue THEN a[1] ELSE RInt(0),
           IF b # NoValue THEN b[1] ELSE RInt(0))>>

\* _safe_subtract on optional numbers
safe_subtract_values(a, b) ==
    IF a # NoValue /\ b # NoValue THEN <<RSub(a[1], b[1])>> ELSE NoValue

\* _is_outperforming on optional numbers: <<>> for None, else <<a > b>>.
is_outperforming_values(a, b) ==
    IF a # NoValue /\ b # NoValue THEN <<RLess(b[1], a[1])>> ELSE NoValue

\* compare_portfolio_to_benchmark with the numbers of both sides.  The XIRR
\* of a side is "rate" or "null"; its difference is "value" when both sides
\* have a rate.  On errors the comparison has the four keys below only.
compare_values(order, stored, period, end, prices, close, solver, benchmark_solver) ==
    LET portfolio_performance ==
            portfolio_performance_values(order, stored, period, end, prices, solver)
        actual_period_for_benchmark == portfolio_performance.period
        benchmark_performance ==
            benchmark_performance_values(CashFlowList(order),
                                         actual_period_for_benchmark, end, close,
                                         benchmark_solver)
        pm == portfolio_performance.metrics
        bm == benchmark_performance.metrics
    IN  IF portfolio_performance.errors # {}
        THEN [kind |-> "return", period |-> actual_period_for_benchmark,
              portfolio_performance |-> portfolio_performance,
              benchmark_performance |-> benchmark_performance,
              errors |-> portfolio_performance.errors,
              comparison |->
                  [cagr_difference |-> NoValue, xirr_difference |-> "null",
                   outperforming_cagr |-> NoValue, outperforming_xirr |-> "null"]]
        ELSE [kind |-> "return", period |-> actual_period_for_benchmark,
              portfolio_performance |-> portfolio_performance,
              benchmark_performance |-> benchmark_performance,
              errors |-> {},
              comparison |->
                  [cagr_difference |-> safe_subtract_values(pm.cagr, bm.cagr),
                   xirr_difference |->
                       IF pm.xirr = "rate" /\ bm.xirr = "rate" THEN "value"
                       ELSE "null",
                   twr_difference |-> safe_subtract_values(pm.twr, bm.twr),
                   outperforming_cagr |-> is_outperforming_values(pm.cagr, bm.cagr),
                   outperforming_xirr |->
                       IF pm.xirr = "rate" /\ bm.xirr = "rate" THEN "value"
                       ELSE "null",
                   outperforming_twr |-> is_outperforming_values(pm.twr, bm.twr)]]

CompareMetrics ==
    /\ response = NoResponse
    /\ \E period \in MetricPeriods, end \in MetricEnds, solver \in SolverOutcomes,
          benchmark_solver \in SolverOutcomes, close \in BenchmarkCloses :
       \E order \in OrderedByDate(get_transactions(ledger, end)) :
          /\ request' = [op |-> "compare_portfolio_to_benchmark",
                         period |-> period, end_date |-> end,
                         order |-> order, solver |-> solver,
                         benchmark_solver |-> benchmark_solver, close |-> close]
          /\ response' = compare_values(order, portfolio_assets, period, end,
                                        price_data, close, solver,
                                        benchmark_solver)
    /\ UNCHANGED <<cache_vars, ledger, portfolio_assets, next_id, replay_vars,
                   hist_vars, performance_history>>

NextMetrics ==
    \/ PortfolioMetrics
    \/ BenchmarkMetrics
    \/ CompareMetrics

SpecMetrics == InitMetrics /\ [][NextMetrics]_vars


MetricsOf(op) == response.kind = "return" /\ request.op = op

\* C15: for the portfolio and for the benchmark, and for every period, a
\* beginning value (the valuation at the start of the period, 0 for inception)
\* that is zero or negative gives a null CAGR.
C15_NoBeginningValueNoCagr ==
    /\ MetricsOf("calculate_portfolio_performance") =>
          (~RPos(get_portfolio_value_at_date(request.order, response.start_date,
                                             price_data))
              => response.metrics.cagr = NoValue)
    /\ (MetricsOf("calculate_benchmark_performance") /\ ~response.empty) =>
          (~RPos(BenchmarkBeginningValue(CashFlowList(request.order),
                                         request.close, response.start_date))
              => response.metrics.cagr = NoValue)


\* The requested period starts before the first row the call read.
YoungerThanPeriod ==
    /\ MetricsOf("calculate_portfolio_performance")
    /\ request.order # <<>>
    /\ LET start == get_start_date(request.period, request.end_date).value
       IN  start # NoValue /\ FirstDate(Rows(request.order)) > start[1]

\* Every asset held has a stored current value and a close in its series.
EveryHeldAssetValued ==
    /\ response.errors = {}
    /\ \A a \in Assets :
          get_holdings_at_date(Rows(request.order), request.end_date)[a] > 0
              => price_data[a] # <<>>

\* C16: a period that starts before the first transaction is evaluated as
\* inception, with a period_adjustment naming the requested period, and when
\* every held asset has a market value cagr, xirr and twr are all non-null.
C16_YoungPortfolioMetrics ==
    YoungerThanPeriod =>
        /\ response.period = "inception"
        /\ response.period_adjustment # <<>>
        /\ response.period_adjustment[1].requested_period = request.period
        /\ (EveryHeldAssetValued /\ request.solver = "rate") =>
              /\ response.metrics.cagr # NoValue
              /\ response.metrics.xirr # "null"
              /\ response.metrics.twr # NoValue


\* The flows _calculate_xirr assembled for the call that returned.
AssembledFlows ==
    xirr_flows(request.order, response.current_value, response.start_date,
               request.end_date, price_data)

\* How often row t enters the flows: as a flow of its own, and inside the
\* opening valuation when that valuation is one of the flows.
TimesCounted(t) ==
    Cardinality({i \in 1..Len(AssembledFlows) :
                    /\ AssembledFlows[i].source = "transaction"
                    /\ AssembledFlows[i].id = t.id})
      + (IF /\ AssembledFlows[1].source = "opening"
            /\ t.transaction_date <= response.start_date[1]
         THEN 1 ELSE 0)

\* C17: for a bounded period no transaction enters the XIRR cash flows twice:
\* a row is either inside the opening valuation or a flow of the period, and
\* every row from the start of the period on is a flow exactly once.
C17_EachTransactionOnceInFlows ==
    (/\ MetricsOf("calculate_portfolio_performance")
     /\ response.start_date # NoValue
     /\ response.errors = {}) =>
        \A t \in Rows(request.order) :
            /\ TimesCounted(t) <= 1
            /\ t.transaction_date >= response.start_date[1] => TimesCounted(t) = 1


\* The terminal flow of the XIRR of the call that returned.
TerminalFlow == AssembledFlows[Len(AssembledFlows)]

\* C18: the terminal value of the return metrics is the valuation of the
\* portfolio at the requested end date: what is held after the rows up to
\* end_date, at the closes of that date.
C18_TerminalValueAtEndDate ==
    (/\ MetricsOf("calculate_portfolio_performance")
     /\ request.order # <<>>
     /\ EveryHeldAssetValued) =>
        /\ TerminalFlow.source = "terminal"
        /\ TerminalFlow.date = request.end_date
        /\ TerminalFlow.amount =
              get_portfolio_value_at_date(request.order, <<request.end_date>>,
                                          price_data)


\* The flows _calculate_benchmark_xirr assembled for the call that returned.
BenchmarkAssembledFlows ==
    LET cash_flows == CashFlowList(request.order)
        start == get_start_date(request.period, request.end_date).value
        period_cash_flows ==
            IF start # NoValue
            THEN SelectSeq(cash_flows, LAMBDA cf : cf.date >= start[1])
            ELSE cash_flows
    IN  benchmark_xirr_flows(period_cash_flows, response.current_value,
                             request.end_date)

\* C19: the XIRR of the portfolio and of the benchmark is null, and the call
\* returns, whenever the assembled flows lack a positive or a negative amount
\* or the solver does not come back with a rate.
C19_XirrNullWithoutSolution ==
    /\ request.op = "calculate_portfolio_performance" =>
          /\ response.kind = "return"
          /\ (~MixedFlows(AssembledFlows) \/ request.solver # "rate")
                => response.metrics.xirr = "null" /\ response.metrics.mwr = "null"
    /\ request.op = "calculate_benchmark_performance" =>
          /\ response.kind = "return"
          /\ (\/ response.empty
              \/ ~MixedFlows(BenchmarkAssembledFlows)
              \/ request.solver # "rate")
                => response.metrics.xirr = "null" /\ response.metrics.mwr = "null"

\* A call whose flows are all of one sign, with a solver that would have
\* produced a rate for them, returned a null XIRR.
C19_Witness ==
    /\ MetricsOf("calculate_portfolio_performance")
    /\ response.errors = {}
    /\ Len(AssembledFlows) >= 2
    /\ ~MixedFlows(AssembledFlows)
    /\ request.solver = "rate"
    /\ response.metrics.xirr = "null"


\* (ending value / beginning value - 1), as a percentage
SimpleReturn(ending_value, beginning_value) ==
    <<Percent(RSub(RDiv(ending_value, beginning_value), RInt(1)))>>

\* No row lies strictly between the start of a bounded period and its end.
NoIntermediateFlow ==
    \A t \in Rows(request.order) :
        ~(/\ t.transaction_date > response.start_date[1]
          /\ t.transaction_date < request.end_date)

\* C20: without a cash flow strictly inside the period the TWR is the simple
\* return of the period: for a bounded period the terminal value over the
\* value at its start, and for a single purchase held since inception the
\* terminal value over the amount invested.
C20_TwrWithoutFlowsIsSimpleReturn ==
    (/\ MetricsOf("calculate_portfolio_performance")
     /\ request.order # <<>>
     /\ EveryHeldAssetValued) =>
        /\ (/\ response.start_date # NoValue
            /\ NoIntermediateFlow
            /\ RPos(get_portfolio_value_at_date(request.order,
                                                response.start_date, price_data)))
              => response.metrics.twr =
                    SimpleReturn(response.current_value,
                                 get_portfolio_value_at_date(
                                     request.order, response.start_date,
                                     price_data))
        /\ (/\ response.start_date = NoValue
            /\ Len(request.order) = 1
            /\ request.order[1].transaction_type = "BUY")
              => response.metrics.twr =
                    SimpleReturn(response.current_value,
                                 RInt(request.order[1].total_amount))

\* The start of the period the call evaluated: its start date, or for
\* inception the date of the first row.
EvaluatedStart ==
    IF response.start_date # NoValue THEN response.start_date[1]
    ELSE FirstDate(Rows(request.order))

\* The cash-flow dates and the sub-periods _calculate_twr worked with.
TwrCashFlowDates ==
    get_cash_flow_dates(request.order, response.start_date, request.end_date)

TwrSubPeriods ==
    create_sub_periods(response.start_date, request.end_date, TwrCashFlowDates)

\* C21: the cash-flow dates of the TWR are exactly the distinct transaction
\* dates strictly inside the period, for bounded periods and for inception,
\* and the sub-periods built from them have a positive length, follow one
\* another without gap or overlap, and reach from the start of the period to
\* its end.
C21_SubPeriodsPartitionPeriod ==
    (/\ MetricsOf("calculate_portfolio_performance")
     /\ request.order # <<>>
     /\ response.errors = {}) =>
        /\ TwrCashFlowDates =
              {t.transaction_date : t \in
                  {u \in Rows(request.order) :
                      /\ u.transaction_date > EvaluatedStart
                      /\ u.transaction_date < request.end_date}}
        /\ TwrCashFlowDates # {} =>
              /\ TwrSubPeriods # <<>>
              /\ TwrSubPeriods[1].period_start = EvaluatedStart
              /\ TwrSubPeriods[Len(TwrSubPeriods)].period_end = request.end_date
              /\ \A i \in 1..Len(TwrSubPeriods) :
                    TwrSubPeriods[i].period_start < TwrSubPeriods[i].period_end
              /\ \A i \in 1..(Len(TwrSubPeriods) - 1) :
                    TwrSubPeriods[i].period_end = TwrSubPeriods[i + 1].period_start

\* calculate_benchmark_performance read a price frame and went on to the metrics.
BenchmarkReturned ==
    MetricsOf("calculate_benchmark_performance") /\ ~response.empty

\* The cash flows of the period calculate_benchmark_performance handed on.
PeriodCashFlows ==
    LET start == get_start_date(request.period, request.end_date).value
    IN  IF start # NoValue
        THEN SelectSeq(CashFlowList(request.order),
                       LAMBDA cf : cf.date >= start[1])
        ELSE CashFlowList(request.order)

\* The sub-periods of the benchmark TWR of the call that returned.
BenchmarkWalked ==
    benchmark_sub_periods(PeriodCashFlows, request.close, response.start_date,
                          request.end_date)

\* The money put into the benchmark at a date: purchases less sales.
InjectedAt(cash_flows, date) == BenchmarkNetCashFlow(cash_flows, date - 1, date)

\* C22: a sub-period of the TWR that starts with a value of zero and a
\* positive flow injected at its start has the return 0, for the portfolio
\* and for the benchmark; it is neither left out nor given another number.
C22_NewMoneyReturnsZero ==
    /\ (/\ MetricsOf("calculate_portfolio_performance")
        /\ request.order # <<>>
        /\ response.errors = {}
        /\ TwrCashFlowDates # {}) =>
          \A i \in 1..Len(TwrSubPeriods) :
              (/\ get_portfolio_value_at_date(
                      request.order, <<TwrSubPeriods[i].period_start>>,
                      price_data) = RInt(0)
               /\ get_cash_flows_at_date(request.order,
                                         TwrSubPeriods[i].period_start) > 0)
                => calculate_sub_period_return(
                       request.order, TwrSubPeriods[i].period_start,
                       TwrSubPeriods[i].period_end, price_data) = <<RInt(0)>>
    /\ BenchmarkReturned =>
          \A i \in 1..Len(BenchmarkWalked) :
              (/\ BenchmarkWalked[i].cumulative_shares = RInt(0)
               /\ RPos(InjectedAt(PeriodCashFlows,
                                  BenchmarkWalked[i].period_start)))
                => BenchmarkWalked[i].sub_return = <<RInt(0)>>

\* The benchmark units a cash-flow schedule holds at a date: amount / close
\* bought by every purchase and sold by every sale up to that date.
RECURSIVE UnitsHeld(_, _, _)
UnitsHeld(cash_flows, close, date) ==
    IF cash_flows = <<>> THEN RInt(0)
    ELSE LET cf == Head(cash_flows)
         IN  RAdd(IF cf.date <= date THEN Rat(0 - cf.amount, close[1])
                  ELSE RInt(0),
                  UnitsHeld(Tail(cash_flows), close, date))

\* C23: in the benchmark replay every BUY amount buys amount / close units and
\* every SELL amount sells amount / close units, so the units behind the
\* benchmark's value at the end date, and the units each sub-period of the
\* benchmark TWR starts with, are the units bought less the units sold so far.
C23_BenchmarkUnitsReplayed ==
    BenchmarkReturned =>
        /\ response.current_value =
              RMul(UnitsHeld(CashFlowList(request.order), request.close,
                             request.end_date),
                   RInt(request.close[1]))
        /\ \A i \in 1..Len(BenchmarkWalked) :
              BenchmarkWalked[i].cumulative_shares =
                  UnitsHeld(CashFlowList(request.order), request.close,
                            BenchmarkWalked[i].period_start)

Compared == response.kind = "return" /\ request.op = "compare_portfolio_to_benchmark"

\* The benchmark is the portfolio's only asset and every row was executed at
\* the close of its series, which is also the price of the stored value.
SameAssetAtClose ==
    /\ Compared
    /\ request.order # <<>>
    /\ response.errors = {}
    /\ request.close # <<>>
    /\ price_data[CacheAsset] = request.close
    /\ request.close[1] \in CurrentPrices
    /\ \A t \in ledger :
          /\ t.asset_id = CacheAsset
          /\ t.price = request.close[1]
          /\ t.total_amount = t.quantity * t.price

\* The dates and amounts of a list of flows.
DatedAmounts(flows) ==
    [i \in 1..Len(flows) |-> [date |-> flows[i].date, amount |-> flows[i].amount]]

ComparedPortfolioFlows ==
    xirr_flows(request.order, response.portfolio_performance.current_value,
               response.portfolio_performance.start_date, request.end_date,
               price_data)

ComparedBenchmarkFlows ==
    LET start == response.benchmark_performance.start_date
        cash_flows == CashFlowList(request.order)
    IN  benchmark_xirr_flows(
            IF start # NoValue
            THEN SelectSeq(cash_flows, LAMBDA cf : cf.date >= start[1])
            ELSE cash_flows,
            response.benchmark_performance.current_value, request.end_date)

\* C24: with the portfolio's only asset as the benchmark and every trade at
\* the day's close, both sides have the same current value, the same XIRR
\* cash flows and the same TWR, for bounded periods and for inception, and
\* every difference that is reported is zero.
C24_SameAssetSameMetrics ==
    SameAssetAtClose =>
        /\ response.benchmark_performance.current_value =
              response.portfolio_performance.current_value
        /\ DatedAmounts(ComparedBenchmarkFlows) = DatedAmounts(ComparedPortfolioFlows)
        /\ response.benchmark_performance.metrics.twr =
              response.portfolio_performance.metrics.twr
        /\ response.comparison.twr_difference \in {NoValue, <<RInt(0)>>}
        /\ response.comparison.cagr_difference \in {NoValue, <<RInt(0)>>}

\* comparison.get(key): None for a key the comparison does not have.
ComparisonGet(key, none) ==
    IF key \in DOMAIN response.comparison THEN response.comparison[key] ELSE none

\* C25: in compare_portfolio_to_benchmark the difference of cagr, of xirr and
\* of twr is null exactly when the metric is missing on one side, and is the
\* portfolio's metric less the benchmark's otherwise; the outperformance flag
\* is null exactly when the difference is; the call returns whichever metrics
\* are missing.
C25_NullSafeComparison ==
    request.op = "compare_portfolio_to_benchmark" =>
        /\ response.kind = "return"
        /\ \A m \in {"cagr", "twr"} :
              LET pm == response.portfolio_performance.metrics[m]
                  bm == response.benchmark_performance.metrics[m]
                  difference == ComparisonGet(m \o "_difference", NoValue)
                  flag == ComparisonGet("outperforming_" \o m, NoValue)
              IN  /\ difference = NoValue <=> (pm = NoValue \/ bm = NoValue)
                  /\ difference # NoValue => difference = <<RSub(pm[1], bm[1])>>
                  /\ flag = NoValue <=> difference = NoValue
        /\ LET pm == response.portfolio_performance.metrics.xirr
               bm == response.benchmark_performance.metrics.xirr
               difference == ComparisonGet("xirr_difference", "null")
               flag == ComparisonGet("outperforming_xirr", "null")
           IN  /\ difference = "null" <=> (pm = "null" \/ bm = "null")
               /\ flag = "null" <=> difference = "null"

\* A comparison without errors in which one difference is a number and
\* another is null because only the portfolio's side lacks the metric.
C25_Witness ==
    /\ Compared
    /\ response.errors = {}
    /\ response.comparison.twr_difference # NoValue
    /\ response.comparison.cagr_difference = NoValue
    /\ response.portfolio_performance.metrics.cagr = NoValue
    /\ response.benchmark_performance.metrics.cagr # NoValue

\* C26: during one valuation walk the price series of an asset is requested
\* from the market-data service at most once, however many days are walked
\* and whether or not the request returns data.
C26_OneFetchPerAsset == \A a \in Assets : fetches[a] <= 1

\* The price of the only asset held is the same on every date and now, and
\* every row was executed at it: the stored current value is the quantity held
\* at that price, and only cash flows change the portfolio's value.
ConstantPrice ==
    /\ price_data[CacheAsset] # <<>>
    /\ price_data[CacheAsset][1] \in CurrentPrices
    /\ Rows(request.order) = ledger
    /\ \A t \in ledger :
          /\ t.asset_id = CacheAsset
          /\ t.price = price_data[CacheAsset][1]
          /\ t.total_amount = t.quantity * t.price
          /\ SumSigned({u \in ledger :
                          u.transaction_date <= t.transaction_date}) >= 0

\* C27: with a constant price of every asset the TWR of the portfolio is 0,
\* whatever is bought and sold in the period.
C27_ConstantPriceZeroTwr ==
    (/\ MetricsOf("calculate_portfolio_performance")
     /\ request.order # <<>>
     /\ response.errors = {}
     /\ ConstantPrice) =>
        response.metrics.twr \in {NoValue, <<RInt(0)>>}

\* ------------------------------------- one ledger, four derivations of it
\* The quantity and the cost basis of a pair are derived from the ledger in
\* four places: the FIFO replay, the point-in-time valuation, the daily walk
\* and the snapshot generator.  SpecHoldings runs the four on one ledger.
MaxHoldTx == 3
\* Midnight of day 0, later on day 0, midnight of day 1.
HoldingDates == {0, 1, OneDay}
\* The end of every derivation: midnight of day 2, after the last row.
HoldingsEnd == 2 * OneDay

HoldingShapes ==
    [transaction_type : TxTypes, quantity : Quantities, price : Prices,
     transaction_date : HoldingDates]

HoldingShapeLeq(a, b) ==
    LET ka == <<a.transaction_date, buy_first_sort_order(a), a.quantity, a.price>>
        kb == <<b.transaction_date, buy_first_sort_order(b), b.quantity, b.price>>
    IN  \/ ka = kb
        \/ \E i \in 1..4 : ka[i] < kb[i] /\ \A j \in 1..(i - 1) : ka[j] = kb[j]

\* Every ledger of 1..max rows of one asset, each multiset of rows once;
\* total_amount is quantity * price, as create_transaction computes it.
HoldingLedgers(max) ==
    UNION {
        { {Transaction(i, ReplayAsset, f[i].transaction_type, f[i].quantity,
                       f[i].price, f[i].quantity * f[i].price,
                       f[i].transaction_date) : i \in 1..n}
          : f \in {g \in [1..n -> HoldingShapes] :
                      \A i \in 1..(n - 1) : HoldingShapeLeq(g[i], g[i + 1])} }
        : n \in 1..max }

\* _get_portfolio_value_at_date: the holdings it values, the rows with
\* transaction_date <= target_date summed per asset and the sums that are not
\* above 1e-9 removed (held: 0).
ValuationHoldings(txs, target_date) ==
    [a \in Assets |->
        LET v == SumSigned({t \in txs : t.asset_id = a
                                        /\ t.transaction_date <= target_date})
        IN  IF v > 0 THEN v ELSE 0]

\* The rows with their transaction_date in the ticks of the generator.
InCacheTicks(txs) ==
    {[t EXCEPT !.transaction_date = @ * (CacheTicksPerDay \div TicksPerDay)]
        : t \in txs}

InitHoldings ==
    /\ ledger \in HoldingLedgers(MaxHoldTx)
    /\ portfolio_assets = [a \in Assets |-> NoRow]
    /\ next_id = Cardinality(ledger) + 1
    /\ prev_row = <<>>
    /\ ReplayIdle
    /\ price_data = [a \in Assets |-> <<HistoricalClose>>]
    /\ end_date = HoldingsEnd
    /\ all_transactions = get_transactions(ledger, end_date)
    /\ start_date \in StartDates(all_transactions, end_date)
    /\ holdings = [a \in Assets |-> 0]
    /\ date_range = <<>> /\ history = <<>>
    /\ hpc = "start"
    /\ price_cache = {} /\ fetches = [a \in Assets |-> 0]
    /\ PerfIdle
    /\ CacheIdle

\* recalculate_asset_state(portfolio_id, asset_id), from its query to its commit.
HoldingsRecalculate ==
    /\ hpc = "done"
    /\ portfolio_assets[ReplayAsset] = NoRow
    /\ \E row \in recalculate_asset_state(ledger, NoRow, ReplayAsset) :
          portfolio_assets' = [portfolio_assets EXCEPT ![ReplayAsset] = row]
    /\ UNCHANGED <<ledger, next_id, replay_vars, hist_vars, perf_vars, cache_vars>>

\* _get_portfolio_value_at_date(portfolio_id, end_date): its holdings and the
\* value it returns for them.
HoldingsValuation ==
    /\ portfolio_assets[ReplayAsset] # NoRow
    /\ request = NoRequest
    /\ request' = [op |-> "_get_portfolio_value_at_date", target_date |-> end_date]
    /\ LET held == ValuationHoldings(ledger, end_date)
       IN  response' = [kind |-> "value", holdings |-> held,
                        value |-> TotalValue(held, price_data)]
    /\ UNCHANGED <<ledger, portfolio_assets, next_id, replay_vars, hist_vars,
                   performance_history, cache_vars>>

\* generate_historical_performance_snapshots from the first transaction to
\* end_date, for one result list of its query.
HoldingsSnapshots ==
    /\ request # NoRequest
    /\ performance_history = {}
    /\ \E order \in OrderedByDate(InCacheTicks(ledger)) :
          performance_history' =
              GenerateSnapshots(order, FirstTransactionDay(InCacheTicks(ledger)),
                                DateOf(end_date), clock)
    /\ UNCHANGED <<ledger, portfolio_assets, next_id, replay_vars, hist_vars,
                   request, response, cache_vars>>

NextHoldings ==
    \/ HistoryBegin \/ HistoryDay \/ HistoryReturn
    \/ HoldingsRecalculate \/ HoldingsValuation \/ HoldingsSnapshots

SpecHoldings == InitHoldings /\ [][NextHoldings]_vars

\* The four derivations have run on the ledger.
AllDerived == hpc = "done" /\ performance_history # {}

\* The quantity behind the last snapshot: its total_value over the close.
SnapshotQuantity ==
    LatestSnapshot(performance_history).total_value[1] \div HistoricalClose

\* A quantity that is not above 1e-9 is no holding.
HeldQuantity(q) == IF q > 0 THEN q ELSE 0

\* C28: the quantity held after the last transaction is the same in the FIFO
\* replay, the point-in-time valuation, the daily walk (from any start date)
\* and the snapshot generator, for every ledger.
C28_SameQuantityEverywhere ==
    AllDerived =>
        LET q == portfolio_assets[ReplayAsset].quantity
        IN  /\ response.holdings[ReplayAsset] = q
            /\ HeldQuantity(holdings[ReplayAsset]) = q
            /\ SnapshotQuantity = q

\* C29: the total cost basis of the last daily snapshot equals the sum over
\* the assets of the FIFO cost basis the replay stores for the same ledger.
C29_SnapshotCostBasisIsFifo ==
    AllDerived =>
        LatestSnapshot(performance_history).total_cost_basis
            = StoredCostBasis(portfolio_assets)

\* ------------------------------------------ the stored current value
\* The values the row of a pair may carry for the quantity it holds: None, or
\* a current price times the quantity.
ValuesOfQuantity(quantity) ==
    {NoValue} \cup {RInt(p * quantity) : p \in CurrentPrices}

\* recalculate_asset_state has written the row of the pair in this step.
Recalculated(a) ==
    /\ portfolio_assets'[a] # portfolio_assets[a]
    /\ portfolio_assets'[a].present

\* C30: when recalculate_asset_state completes for an asset with a positive
\* quantity, the stored current value is the current price times the
\* recomputed quantity, or null: never the value of an earlier quantity.
C30_NoStaleCurrentValue ==
    [][\A a \in Assets :
          (Recalculated(a) /\ portfolio_assets'[a].quantity > 0) =>
              portfolio_assets'[a].current_value
                  \in ValuesOfQuantity(portfolio_assets'[a].quantity)]_vars
====
